---- MODULE Spec2Model ----
(***************************************************************************)
(* A model of the pumpfundler SDK: the bonding-curve / AMM pricing engine  *)
(* (bondingCurveAccount.ts, amm.ts, GlobalAccount in pumpfun.ts) and the   *)
(* create-and-buy submission protocol (pumpfun.ts, jitoWithAxios.ts,       *)
(* util.ts), and the chunked bundle submission (jito.ts).                  *)
(*                                                                         *)
(* Seven specifications share the module:                                   *)
(*   SpecCurve  BondingCurveAccount price queries on a decoded snapshot    *)
(*   SpecAmm    an AMM simulator under applyBuy / applySell / getBuyPrice  *)
(*   SpecGlobal GlobalAccount.getInitialBuyPrice and its cross-checks      *)
(*   Spec       one run of PumpFundlerSDK.createAndBuy against a ledger    *)
(*              and a relay (FairSpec adds the fairness of both)           *)
(*   SpecBundle one run of bundle() against the block engine               *)
(*   SpecTrade  one run of PumpFundlerSDK.buy or sell against the ledger   *)
(*   SpecUtil   calls of util.ts' fee and slippage functions               *)
(***************************************************************************)
EXTENDS Integers, Sequences, FiniteSets, TLC

VARIABLES
    bc,        \* SpecCurve: the BondingCurveAccount under query
    bcQuery,   \* SpecCurve: the last price query and what it returned
    amm,       \* SpecAmm: the AMM instance (its five public fields)
    ammOrigin, \* SpecAmm: which static constructor built it, and from what
    ammHist,   \* SpecAmm: the calls made on the instance, oldest first
    cab,       \* Spec: the locals of one createAndBuy call
    ledger,    \* Spec: the ledger's view of the mint and of the payload
    relay,     \* Spec: what the block-engine relay has been sent
    globalAccount, \* SpecGlobal: the GlobalAccount under query
    globalQuery, \* SpecGlobal: the initial-buy quote and its two cross-checks
    jito,      \* SpecBundle: the locals of one bundle() call
    engine,    \* SpecBundle: the block engine's bundles and result stream
    trade,     \* SpecTrade: the locals of one buy() or sell() call
    chain,     \* SpecTrade: the ledger as buy() and sell() see it
    util       \* SpecUtil: a call of one of util.ts' pure functions

vars == <<bc, bcQuery, amm, ammOrigin, ammHist, cab, ledger, relay,
          globalAccount, globalQuery, jito, engine,
                trade, chain, util>>

(***************************************************************************)
(* Bounds of the model.                                                    *)
(***************************************************************************)
MaxReserve == 3
MaxAmount == 3
MaxOps == 2
MaxBuyers == 3
MaxAttempts == 2
MaxInitialTokens == 8
MaxTxs == 5

(***************************************************************************)
(* bigint arithmetic.  JavaScript's bigint division truncates toward zero  *)
(* and throws a RangeError on a zero divisor; \div floors.                 *)
(***************************************************************************)
Abs(x) == IF x < 0 THEN -x ELSE x

TruncDiv(a, b) ==
    IF (a >= 0) = (b > 0)
    THEN Abs(a) \div Abs(b)
    ELSE -(Abs(a) \div Abs(b))

Min(a, b) == IF a < b THEN a ELSE b

\* The quotient rounded toward minus infinity.
FloorDiv(a, b) ==
    IF TruncDiv(a, b) * b # a /\ ((a < 0) # (b < 0))
    THEN TruncDiv(a, b) - 1
    ELSE TruncDiv(a, b)

\* The outcome of a call: a returned value, or a thrown error.
Ok(v) == [ok |-> TRUE, val |-> v, err |-> "none"]
Throw(e) == [ok |-> FALSE, val |-> 0, err |-> e]

\* a / b on bigints
BigDiv(a, b) == IF b = 0 THEN Throw("ArithmeticError") ELSE Ok(TruncDiv(a, b))

(***************************************************************************)
(* bigint and Number values of any size.  A bigint is a sign and a         *)
(* magnitude, the magnitude a sequence of bits, lowest first, with no      *)
(* leading zero (<<>> is 0).  A Number is an IEEE 754 double: a sign and a *)
(* significand of at most 53 significant bits, worth sig * 2^(-frac).      *)
(***************************************************************************)
SignificandBits == 53

\* Magnitudes are bit sequences, lowest bit first, without high zero bits.
\* Sums and products are computed on limbs of twelve bits.
LimbBase == 2^12

BitAt(bits, i) == IF i >= 1 /\ i <= Len(bits) THEN bits[i] ELSE 0

RECURSIVE LimbAt(_, _, _)
LimbAt(bits, j, k) ==
    IF k = 12 THEN 0
    ELSE BitAt(bits, 12 * (j - 1) + k + 1) * 2^k + LimbAt(bits, j, k + 1)

LimbsOfBits(bits) == [j \in 1..((Len(bits) + 11) \div 12) |-> LimbAt(bits, j, 0)]

BitsOfLimbs(limbs) ==
    LET all == [i \in 1..(12 * Len(limbs)) |->
                    (limbs[((i - 1) \div 12) + 1] \div 2^((i - 1) % 12)) % 2]
        ones == {i \in 1..Len(all) : all[i] = 1}
        top == IF ones = {} THEN 0 ELSE CHOOSE i \in ones : \A j \in ones : j <= i
    IN  SubSeq(all, 1, top)

RECURSIVE Carry(_, _)
Carry(raw, carry) ==
    IF raw = <<>>
    THEN (IF carry = 0 THEN <<>> ELSE <<carry % LimbBase>> \o Carry(<<>>, carry \div LimbBase))
    ELSE <<(Head(raw) + carry) % LimbBase>>
             \o Carry(Tail(raw), (Head(raw) + carry) \div LimbBase)

LimbOr0(limbs, i) == IF i >= 1 /\ i <= Len(limbs) THEN limbs[i] ELSE 0

BitsAdd(a, b, carry) ==
    LET la == LimbsOfBits(a)
        lb == LimbsOfBits(b)
    IN  BitsOfLimbs(Carry([k \in 1..(IF Len(la) > Len(lb) THEN Len(la) ELSE Len(lb)) |->
                               LimbOr0(la, k) + LimbOr0(lb, k)], carry))

RECURSIVE Convolve(_, _, _, _)
Convolve(la, lb, k, i) ==
    IF i > Len(la) THEN 0
    ELSE la[i] * LimbOr0(lb, k + 1 - i) + Convolve(la, lb, k, i + 1)

BitsMul(a, b) ==
    IF a = <<>> \/ b = <<>> THEN <<>>
    ELSE LET la == LimbsOfBits(a)
             lb == LimbsOfBits(b)
         IN  BitsOfLimbs(Carry([k \in 1..(Len(la) + Len(lb) - 1) |->
                                    Convolve(la, lb, k, 1)], 0))

\* a - b for a >= b
RECURSIVE Borrow(_, _)
Borrow(raw, borrow) ==
    IF raw = <<>> THEN <<>>
    ELSE <<(Head(raw) - borrow) % LimbBase>>
             \o Borrow(Tail(raw), IF Head(raw) - borrow < 0 THEN 1 ELSE 0)

BitsSub(a, b) ==
    LET la == LimbsOfBits(a)
        lb == LimbsOfBits(b)
    IN  BitsOfLimbs(Borrow([k \in 1..Len(la) |-> la[k] - LimbOr0(lb, k)], 0))

\* a / d for a divisor 0 < d < 2^19, by long division from the highest limb
RECURSIVE RemainderFrom(_, _, _)
RemainderFrom(limbs, d, k) ==
    IF k > Len(limbs) THEN 0
    ELSE (RemainderFrom(limbs, d, k + 1) * LimbBase + limbs[k]) % d

BitsDivNat(a, d) ==
    LET la == LimbsOfBits(a)
    IN  BitsOfLimbs([k \in 1..Len(la) |->
                        (RemainderFrom(la, d, k + 1) * LimbBase + la[k]) \div d])

RECURSIVE BitsOfNat(_)
BitsOfNat(n) == IF n = 0 THEN <<>> ELSE <<n % 2>> \o BitsOfNat(n \div 2)

RECURSIVE NatOfBits(_)
NatOfBits(b) == IF b = <<>> THEN 0 ELSE Head(b) + 2 * NatOfBits(Tail(b))

RECURSIVE NatOfDigits(_)
NatOfDigits(digits) ==
    IF digits = <<>> THEN 0
    ELSE 10 * NatOfDigits(SubSeq(digits, 1, Len(digits) - 1)) + digits[Len(digits)]

\* The magnitude written in decimal, highest digit first, read nine digits
\* at a time.
RECURSIVE BitsOfDecimal(_)
BitsOfDecimal(digits) ==
    IF Len(digits) <= 9 THEN BitsOfNat(NatOfDigits(digits))
    ELSE BitsAdd(BitsMul(BitsOfNat(10^9),
                         BitsOfDecimal(SubSeq(digits, 1, Len(digits) - 9))),
                 BitsOfNat(NatOfDigits(SubSeq(digits, Len(digits) - 8, Len(digits)))), 0)

undefined == [defined |-> FALSE, neg |-> FALSE, bits |-> <<>>]
BigIntOfBits(neg, bits) == [defined |-> TRUE, neg |-> neg /\ bits # <<>>, bits |-> bits]
BigIntOfInt(n) == BigIntOfBits(n < 0, BitsOfNat(Abs(n)))
BigIntOfDecimal(digits) == BigIntOfBits(FALSE, BitsOfDecimal(digits))
IntOfBigInt(b) == IF b.neg THEN -NatOfBits(b.bits) ELSE NatOfBits(b.bits)

\* A magnitude rounded to 53 significant bits, ties to even.
RoundSignificand(bits) ==
    IF Len(bits) <= SignificandBits THEN bits
    ELSE LET k == Len(bits) - SignificandBits
             kept == SubSeq(bits, k + 1, Len(bits))
             half == bits[k] = 1
             sticky == \E i \in 1..(k - 1) : bits[i] = 1
             odd == bits[k + 1] = 1
             up == half /\ (sticky \/ odd)
         IN  [i \in 1..k |-> 0] \o (IF up THEN BitsAdd(kept, <<1>>, 0) ELSE kept)

Double(neg, sig, frac) == [neg |-> neg, sig |-> sig, frac |-> frac]

\* Number(x) of a bigint x
Number(x) == Double(x.neg, RoundSignificand(x.bits), 0)

\* x * y on Numbers
NumberMul(x, y) ==
    Double(x.neg # y.neg, RoundSignificand(BitsMul(x.sig, y.sig)), x.frac + y.frac)

\* Math.floor(x)
Math_floor(x) ==
    LET whole == IF Len(x.sig) > x.frac
                 THEN SubSeq(x.sig, x.frac + 1, Len(x.sig)) ELSE <<>>
        fraction == \E i \in 1..Min(x.frac, Len(x.sig)) : x.sig[i] = 1
    IN  IF x.neg /\ fraction
        THEN Double(TRUE, BitsAdd(whole, <<1>>, 0), 0)
        ELSE Double(x.neg, whole, 0)

\* BigInt(x) of a Number x that holds an integer
BigInt(x) == BigIntOfBits(x.neg, x.sig)

(***************************************************************************)
(* BondingCurveAccount (bondingCurveAccount.ts)                            *)
(***************************************************************************)
FeeDenominator == 10000

BondingCurveAccount(vt, vs, rt, rs, supply, complete) ==
    [virtualTokenReserves |-> vt, virtualSolReserves |-> vs,
     realTokenReserves |-> rt, realSolReserves |-> rs,
     tokenTotalSupply |-> supply, complete |-> complete]

\* The mutant of C5: the non-positive shortcut ahead of the completeness check.
BondingCurve_getBuyPrice_ShortcutFirst(c, amount) ==
    IF amount <= 0 THEN Ok(0)
    ELSE IF c.complete THEN Throw("CurveComplete")
    ELSE LET n == c.virtualSolReserves * c.virtualTokenReserves
             i == c.virtualSolReserves + amount
             q == BigDiv(n, i)
         IN  IF ~q.ok THEN q
             ELSE Ok(Min(c.virtualTokenReserves - (q.val + 1), c.realTokenReserves))

\* The mutant of C24: the quote is not clamped to realTokenReserves.
BondingCurve_getBuyPrice_NoClamp(c, amount) ==
    IF c.complete THEN Throw("CurveComplete")
    ELSE IF amount <= 0 THEN Ok(0)
    ELSE LET q == BigDiv(c.virtualSolReserves * c.virtualTokenReserves,
                         c.virtualSolReserves + amount)
         IN  IF ~q.ok THEN q ELSE Ok(c.virtualTokenReserves - (q.val + 1))

BondingCurve_getBuyPrice(c, amount) ==
    IF c.complete THEN Throw("CurveComplete")
    ELSE IF amount <= 0 THEN Ok(0)
    ELSE LET n == c.virtualSolReserves * c.virtualTokenReserves
             i == c.virtualSolReserves + amount
             q == BigDiv(n, i)
         IN  IF ~q.ok THEN q
             ELSE LET r == q.val + 1
                      s == c.virtualTokenReserves - r
                  IN  Ok(IF s < c.realTokenReserves THEN s ELSE c.realTokenReserves)

\* The mutant of C25: the fee is rounded up.
BondingCurve_getSellPrice_FeeRoundedUp(c, amount, feeBasisPoints) ==
    IF c.complete THEN Throw("CurveComplete")
    ELSE IF amount <= 0 THEN Ok(0)
    ELSE LET q == BigDiv(amount * c.virtualSolReserves,
                         c.virtualTokenReserves + amount)
         IN  IF ~q.ok THEN q
             ELSE Ok(q.val - TruncDiv(q.val * feeBasisPoints + FeeDenominator - 1,
                                      FeeDenominator))

BondingCurve_getSellPrice(c, amount, feeBasisPoints) ==
    IF c.complete THEN Throw("CurveComplete")
    ELSE IF amount <= 0 THEN Ok(0)
    ELSE LET q == BigDiv(amount * c.virtualSolReserves,
                         c.virtualTokenReserves + amount)
         IN  IF ~q.ok THEN q
             ELSE LET n == q.val
                      a == TruncDiv(n * feeBasisPoints, FeeDenominator)
                  IN  Ok(n - a)

BondingCurve_getBuyOutPrice(c, amount, feeBasisPoints) ==
    LET solTokens == IF amount < c.realSolReserves THEN c.realSolReserves ELSE amount
        q == BigDiv(solTokens * c.virtualSolReserves,
                    c.virtualTokenReserves - solTokens)
    IN  IF ~q.ok THEN q
        ELSE LET totalSellValue == q.val + 1
                 fee == TruncDiv(totalSellValue * feeBasisPoints, FeeDenominator)
             IN  Ok(totalSellValue + fee)

BondingCurve_getFinalMarketCapSOL(c, feeBasisPoints) ==
    LET totalSellValue ==
            BondingCurve_getBuyOutPrice(c, c.realTokenReserves, feeBasisPoints)
    IN  IF ~totalSellValue.ok THEN totalSellValue
        ELSE LET totalVirtualValue == c.virtualSolReserves + totalSellValue.val
                 totalVirtualTokens == c.virtualTokenReserves - c.realTokenReserves
             IN  IF totalVirtualTokens = 0 THEN Ok(0)
                 ELSE BigDiv(c.tokenTotalSupply * totalVirtualValue,
                             totalVirtualTokens)

(***************************************************************************)
(* SpecCurve: a snapshot decoded from the ledger (five u64 fields and a    *)
(* bool, so every reserve is >= 0) and the price queries made on it.       *)
(***************************************************************************)
Reserves == 0..MaxReserve
QueryAmounts == (-1)..MaxAmount \cup {100}
FeeRates == {0, 100, 2500, FeeDenominator}
Supplies == {0, MaxReserve}

\* A curve with virtual reserves 1000/1000.
SampleCurve == BondingCurveAccount(1000, 1000, 800, 0, 1000, FALSE)

CurveStates ==
    {BondingCurveAccount(vt, vs, rt, rs, supply, cpl) :
        vt \in Reserves, vs \in Reserves, rt \in Reserves, rs \in Reserves,
        supply \in Supplies, cpl \in BOOLEAN} \cup {SampleCurve}

NoQuery == [fn |-> "none", amount |-> 0, fee |-> 0, res |-> Ok(0)]

IdleCurve == bc = BondingCurveAccount(0, 0, 0, 0, 0, FALSE) /\ bcQuery = NoQuery
IdleAmm ==
    /\ amm = [virtualSolReserves |-> 0, virtualTokenReserves |-> 0,
              realSolReserves |-> 0, realTokenReserves |-> 0,
              initialVirtualTokenReserves |-> 0]
    /\ ammOrigin = "none"
    /\ ammHist = <<>>
IdleCab == cab = [pc |-> "idle"] /\ ledger = [idle |-> TRUE] /\ relay = [idle |-> TRUE]
IdleGlobal == globalAccount = [idle |-> TRUE] /\ globalQuery = [fn |-> "none"]
IdleJito == jito = [pc |-> "idle"] /\ engine = [idle |-> TRUE]
IdleTrade == trade = [pc |-> "idle"] /\ chain = [idle |-> TRUE]
IdleUtil == util = [fn |-> "none"]

InitCurve ==
    /\ bc \in CurveStates
    /\ bcQuery = NoQuery
    /\ IdleAmm
    /\ IdleCab
    /\ IdleGlobal
    /\ IdleJito
    /\ IdleTrade
    /\ IdleUtil

QueryBuyPrice ==
    \E a \in QueryAmounts :
        /\ bcQuery' = [fn |-> "getBuyPrice", amount |-> a, fee |-> 0,
                       res |-> BondingCurve_getBuyPrice(bc, a)]
        /\ UNCHANGED <<bc, amm, ammOrigin, ammHist, cab, ledger, relay,
                     globalAccount, globalQuery, jito, engine,
                trade, chain, util>>

QuerySellPrice ==
    \E a \in QueryAmounts, f \in FeeRates :
        /\ bcQuery' = [fn |-> "getSellPrice", amount |-> a, fee |-> f,
                       res |-> BondingCurve_getSellPrice(bc, a, f)]
        /\ UNCHANGED <<bc, amm, ammOrigin, ammHist, cab, ledger, relay,
                     globalAccount, globalQuery, jito, engine,
                trade, chain, util>>

QueryFinalMarketCapSOL ==
    \E f \in FeeRates :
        /\ bcQuery' = [fn |-> "getFinalMarketCapSOL", amount |-> 0, fee |-> f,
                       res |-> BondingCurve_getFinalMarketCapSOL(bc, f)]
        /\ UNCHANGED <<bc, amm, ammOrigin, ammHist, cab, ledger, relay,
                       globalAccount, globalQuery, jito, engine,
                trade, chain, util>>

NextCurve == QueryBuyPrice \/ QuerySellPrice \/ QueryFinalMarketCapSOL

SpecCurve == InitCurve /\ [][NextCurve]_vars

\* C5: on a complete curve getBuyPrice and getSellPrice throw CurveComplete for
\* every amount, zero and negative amounts included; no price is returned.
C5_CompleteCurveNeverPrices ==
    (bc.complete /\ bcQuery.fn \in {"getBuyPrice", "getSellPrice"})
        => (~bcQuery.res.ok /\ bcQuery.res.err = "CurveComplete")

C5_Witness ==
    /\ bc.complete
    /\ bcQuery.fn = "getBuyPrice"
    /\ bcQuery.amount <= 0
    /\ bcQuery.res.err = "CurveComplete"

\* C6 (as claimed): on a non-complete curve with non-negative reserves
\* getBuyPrice returns a value, and the value is >= 0.
C6_BuyPriceNonNegative ==
    (~bc.complete /\ bcQuery.fn = "getBuyPrice")
        => (bcQuery.res.ok /\ bcQuery.res.val >= 0)

\* C14 (as claimed): when virtualTokenReserves - realTokenReserves = 0,
\* getFinalMarketCapSOL returns 0 and does not fail, whatever the other
\* reserves are.
C14_FinalCapZeroOnZeroDenominator ==
    (/\ bcQuery.fn = "getFinalMarketCapSOL"
     /\ bc.virtualTokenReserves - bc.realTokenReserves = 0)
        => bcQuery.res = Ok(0)

\* C24: on a non-complete curve getBuyPrice(a) returns
\* min(virtualTokenReserves - (floor(virtualSolReserves * virtualTokenReserves
\* / (virtualSolReserves + a)) + 1), realTokenReserves) for every a > 0, and 0
\* for every a <= 0.
C24_BuyPriceFormula ==
    (~bc.complete /\ bcQuery.fn = "getBuyPrice")
        => /\ bcQuery.res.ok
           /\ bcQuery.amount <= 0 => bcQuery.res.val = 0
           /\ bcQuery.amount > 0 =>
                 LET r == ((bc.virtualSolReserves * bc.virtualTokenReserves)
                               \div (bc.virtualSolReserves + bcQuery.amount)) + 1
                     s == bc.virtualTokenReserves - r
                 IN  /\ bcQuery.res.val <= s
                     /\ bcQuery.res.val <= bc.realTokenReserves
                     /\ bcQuery.res.val \in {s, bc.realTokenReserves}

\* A quote that the clamp to realTokenReserves decides.
C24_Witness ==
    /\ ~bc.complete
    /\ bcQuery.fn = "getBuyPrice"
    /\ bcQuery.amount > 0
    /\ bcQuery.res = Ok(bc.realTokenReserves)
    /\ bc.virtualTokenReserves
           - (((bc.virtualSolReserves * bc.virtualTokenReserves)
                   \div (bc.virtualSolReserves + bcQuery.amount)) + 1)
         > bc.realTokenReserves

\* C25: on a non-complete curve getSellPrice(a, f) returns
\* n - floor(n * f / 10000) with n = floor(a * virtualSolReserves /
\* (virtualTokenReserves + a)) for every a > 0, and 0 for every a <= 0; on
\* virtual reserves 1000/1000 getSellPrice(100, 100) is 90 - floor(90 * 100 /
\* 10000) = 90.
C25_SellPriceFormula ==
    (~bc.complete /\ bcQuery.fn = "getSellPrice")
        => /\ bcQuery.res.ok
           /\ bcQuery.amount <= 0 => bcQuery.res.val = 0
           /\ bcQuery.amount > 0 =>
                 LET n == (bcQuery.amount * bc.virtualSolReserves)
                              \div (bc.virtualTokenReserves + bcQuery.amount)
                 IN  bcQuery.res.val = n - ((n * bcQuery.fee) \div FeeDenominator)
           /\ (bc = SampleCurve /\ bcQuery.amount = 100 /\ bcQuery.fee = 100)
                 => bcQuery.res.val = 90

C25_Witness ==
    /\ bc = SampleCurve
    /\ bcQuery.fn = "getSellPrice"
    /\ bcQuery.amount = 100
    /\ bcQuery.fee = 100
    /\ bcQuery.res = Ok(90)

(***************************************************************************)
(* GlobalAccount (pumpfun.ts) and AMM (amm.ts)                             *)
(***************************************************************************)
GlobalAccount(ivt, ivs, irt) ==
    [initialVirtualTokenReserves |-> ivt, initialVirtualSolReserves |-> ivs,
     initialRealTokenReserves |-> irt]

AMM(vs, vt, rs, rt, ivt) ==
    [virtualSolReserves |-> vs, virtualTokenReserves |-> vt,
     realSolReserves |-> rs, realTokenReserves |-> rt,
     initialVirtualTokenReserves |-> ivt]

\* The mutant of C12: the simulator seeded with the real token reserves as
\* its virtual ones.
fromGlobalAccount_RealAsVirtual(g) ==
    AMM(g.initialVirtualSolReserves, g.initialRealTokenReserves,
        0, g.initialRealTokenReserves, g.initialVirtualTokenReserves)

fromGlobalAccount(global) ==
    AMM(global.initialVirtualSolReserves, global.initialVirtualTokenReserves,
        0, global.initialRealTokenReserves, global.initialVirtualTokenReserves)

fromBondingCurveAccount(bonding_curve, initialVirtualTokenReserves) ==
    AMM(bonding_curve.virtualSolReserves, bonding_curve.virtualTokenReserves,
        bonding_curve.realSolReserves, bonding_curve.realTokenReserves,
        initialVirtualTokenReserves)

\* The "+ 1n" of getBuyPrice.
RoundingBias == 1

\* The mutant of C10: the rounding term left out.
AMM_getBuyPrice_NoBias(a, tokens) ==
    LET q == BigDiv(a.virtualSolReserves * a.virtualTokenReserves,
                    a.virtualTokenReserves - tokens)
    IN  IF ~q.ok THEN q
        ELSE Ok(IF q.val > a.virtualSolReserves
                THEN q.val - a.virtualSolReserves ELSE 0)

AMM_getBuyPrice(a, tokens) ==
    LET product_of_reserves == a.virtualSolReserves * a.virtualTokenReserves
        new_virtual_token_reserves == a.virtualTokenReserves - tokens
        q == BigDiv(product_of_reserves, new_virtual_token_reserves)
    IN  IF ~q.ok THEN q
        ELSE LET new_virtual_sol_reserves == q.val + RoundingBias
                 amount_needed ==
                     IF new_virtual_sol_reserves > a.virtualSolReserves
                     THEN new_virtual_sol_reserves - a.virtualSolReserves
                     ELSE 0
             IN  Ok(IF amount_needed > 0 THEN amount_needed ELSE 0)

\* The mutant of C11: the sale proceeds rounded up instead of down.
AMM_getSellPrice_RoundUp(a, tokens) ==
    LET q1 == BigDiv(tokens * a.initialVirtualTokenReserves, a.virtualTokenReserves)
    IN  IF ~q1.ok THEN q1
        ELSE LET q2 == BigDiv(a.virtualSolReserves * q1.val,
                              a.initialVirtualTokenReserves)
             IN  IF ~q2.ok THEN q2
                 ELSE Ok(Min(q2.val + 1, a.realSolReserves))

AMM_getSellPrice(a, tokens) ==
    LET scaling_factor == a.initialVirtualTokenReserves
        q1 == BigDiv(tokens * scaling_factor, a.virtualTokenReserves)
    IN  IF ~q1.ok THEN q1
        ELSE LET token_sell_proportion == q1.val
                 q2 == BigDiv(a.virtualSolReserves * token_sell_proportion,
                              scaling_factor)
             IN  IF ~q2.ok THEN q2
                 ELSE LET sol_received == q2.val
                      IN  Ok(IF sol_received < a.realSolReserves
                             THEN sol_received
                             ELSE a.realSolReserves)

\* What a call leaves behind: the instance afterwards, and the value returned
\* (ok, token_amount, sol_amount) or the error thrown.
CallResult(after, res, token_amount) ==
    [amm |-> after, ok |-> res.ok, err |-> res.err,
     token_amount |-> token_amount, sol_amount |-> res.val]

\* The mutant of C29: the requested amount bought without the clamp.
AMM_applyBuy_Unclamped(a, token_amount) ==
    LET price == AMM_getBuyPrice(a, token_amount)
    IN  IF ~price.ok
        THEN CallResult(a, price, token_amount)
        ELSE CallResult(
                AMM(a.virtualSolReserves + price.val,
                    a.virtualTokenReserves - token_amount,
                    a.realSolReserves + price.val,
                    a.realTokenReserves - token_amount,
                    a.initialVirtualTokenReserves),
                price, token_amount)

AMM_applyBuy(a, token_amount) ==
    LET final_token_amount ==
            IF token_amount > a.realTokenReserves
            THEN a.realTokenReserves
            ELSE token_amount
        price == AMM_getBuyPrice(a, final_token_amount)
    IN  IF ~price.ok
        THEN CallResult(a, price, final_token_amount)
        ELSE CallResult(
                AMM(a.virtualSolReserves + price.val,
                    a.virtualTokenReserves - final_token_amount,
                    a.realSolReserves + price.val,
                    a.realTokenReserves - final_token_amount,
                    a.initialVirtualTokenReserves),
                price, final_token_amount)

\* The mutant of C9: the sale priced before the tokens are credited.
AMM_applySell_PriceFirst(a, token_amount) ==
    LET sell_price == AMM_getSellPrice(a, token_amount)
        credited == [a EXCEPT
                        !.virtualTokenReserves = @ + token_amount,
                        !.realTokenReserves = @ + token_amount]
    IN  IF ~sell_price.ok
        THEN CallResult(a, sell_price, token_amount)
        ELSE CallResult(
                [credited EXCEPT
                    !.virtualSolReserves = @ - sell_price.val,
                    !.realSolReserves = @ - sell_price.val],
                sell_price, token_amount)

\* The mutant of C35: the proceeds taken from the virtual reserve only.
AMM_applySell_VirtualOnly(a, token_amount) ==
    LET credited == [a EXCEPT
                        !.virtualTokenReserves = @ + token_amount,
                        !.realTokenReserves = @ + token_amount]
        sell_price == AMM_getSellPrice(credited, token_amount)
    IN  IF ~sell_price.ok
        THEN CallResult(credited, sell_price, token_amount)
        ELSE CallResult(
                [credited EXCEPT !.virtualSolReserves = @ - sell_price.val],
                sell_price, token_amount)

AMM_applySell(a, token_amount) ==
    LET credited == [a EXCEPT
                        !.virtualTokenReserves = @ + token_amount,
                        !.realTokenReserves = @ + token_amount]
        sell_price == AMM_getSellPrice(credited, token_amount)
    IN  IF ~sell_price.ok
        THEN CallResult(credited, sell_price, token_amount)
        ELSE CallResult(
                [credited EXCEPT
                    !.virtualSolReserves = @ - sell_price.val,
                    !.realSolReserves = @ - sell_price.val],
                sell_price, token_amount)

(***************************************************************************)
(* SpecAmm: an AMM built by either static constructor from ledger data     *)
(* (u64 fields, so >= 0), then any calls with amounts >= 0.                *)
(***************************************************************************)
TokenAmounts == 0..MaxAmount

InitAmm ==
    /\ \/ \E ivt \in Reserves, ivs \in Reserves, irt \in Reserves :
            /\ amm = fromGlobalAccount(GlobalAccount(ivt, ivs, irt))
            /\ ammOrigin = "fromGlobalAccount"
       \/ \E vt \in Reserves, vs \in Reserves, rt \in Reserves,
             rs \in Reserves, ivt \in Reserves :
            /\ amm = fromBondingCurveAccount(
                        BondingCurveAccount(vt, vs, rt, rs, 0, FALSE), ivt)
            /\ ammOrigin = "fromBondingCurveAccount"
    /\ ammHist = <<>>
    /\ IdleCurve
    /\ IdleCab
    /\ IdleGlobal
    /\ IdleJito
    /\ IdleTrade
    /\ IdleUtil

Call(op, t, before, r) ==
    [op |-> op, t |-> t, before |-> before, after |-> r.amm, ok |-> r.ok,
     err |-> r.err, token_amount |-> r.token_amount, sol_amount |-> r.sol_amount]

\* A history is open while it has room and does not end in a price query: a
\* query changes no field, so the calls after it are those of the history
\* without it.
Open ==
    /\ Len(ammHist) < MaxOps
    /\ (ammHist # <<>> => ammHist[Len(ammHist)].op # "getBuyPrice")

applyBuy ==
    \E t \in TokenAmounts :
        LET r == AMM_applyBuy(amm, t) IN
        /\ Open
        /\ amm' = r.amm
        /\ ammHist' = Append(ammHist, Call("applyBuy", t, amm, r))
        /\ UNCHANGED <<bc, bcQuery, ammOrigin, cab, ledger, relay,
                     globalAccount, globalQuery, jito, engine,
                trade, chain, util>>

applySell ==
    \E t \in TokenAmounts :
        LET r == AMM_applySell(amm, t) IN
        /\ Open
        /\ amm' = r.amm
        /\ ammHist' = Append(ammHist, Call("applySell", t, amm, r))
        /\ UNCHANGED <<bc, bcQuery, ammOrigin, cab, ledger, relay,
                     globalAccount, globalQuery, jito, engine,
                trade, chain, util>>

getBuyPrice ==
    \E t \in TokenAmounts :
        LET r == CallResult(amm, AMM_getBuyPrice(amm, t), t) IN
        /\ Open
        /\ ammHist' = Append(ammHist, Call("getBuyPrice", t, amm, r))
        /\ UNCHANGED <<bc, bcQuery, amm, ammOrigin, cab, ledger, relay,
                     globalAccount, globalQuery, jito, engine,
                trade, chain, util>>

NextAmm == applyBuy \/ applySell \/ getBuyPrice

SpecAmm == InitAmm /\ [][NextAmm]_vars

Product(a) == a.virtualSolReserves * a.virtualTokenReserves
SameReserves(x, y) ==
    /\ x.virtualSolReserves = y.virtualSolReserves
    /\ x.virtualTokenReserves = y.virtualTokenReserves
    /\ x.realSolReserves = y.realSolReserves
    /\ x.realTokenReserves = y.realTokenReserves

\* C7 (as claimed): getBuyPrice(tokens) throws an arithmetic error whenever
\* tokens >= virtualTokenReserves.
C7_BuyPriceThrowsAtOrAboveVirtual ==
    \A i \in 1..Len(ammHist) :
        (ammHist[i].op = "getBuyPrice"
            /\ ammHist[i].t >= ammHist[i].before.virtualTokenReserves)
        => (~ammHist[i].ok /\ ammHist[i].err = "ArithmeticError")

\* C8 (as claimed): an applyBuy or applySell that throws an arithmetic error
\* leaves all four reserves as they were before the call.
C8_FailedCallLeavesReserves ==
    \A i \in 1..Len(ammHist) :
        (ammHist[i].op \in {"applyBuy", "applySell"} /\ ~ammHist[i].ok)
        => SameReserves(ammHist[i].before, ammHist[i].after)

\* applyBuy(t) directly followed by applySell(t) as the first two calls.
RoundTrip ==
    /\ Len(ammHist) >= 2
    /\ ammHist[1].op = "applyBuy" /\ ammHist[1].ok
    /\ ammHist[2].op = "applySell" /\ ammHist[2].ok
    /\ ammHist[1].t = ammHist[2].t

\* C9 (as claimed): on a fresh AMM from either constructor, applyBuy(t) then
\* applySell(t) returns a sell sol_amount <= the buy sol_amount.
C9_RoundTripNeverGains ==
    RoundTrip => ammHist[2].sol_amount <= ammHist[1].sol_amount

\* C9 (amended): the round trip never gains on an AMM built from a
\* GlobalAccount, and on one built from a BondingCurveAccount when the buy is
\* not clamped and stays below the virtual token reserves.
C9_RoundTripNeverGainsUnclamped ==
    (RoundTrip
        /\ (\/ ammOrigin = "fromGlobalAccount"
            \/ /\ ammHist[1].t <= ammHist[1].before.realTokenReserves
               /\ ammHist[1].t < ammHist[1].before.virtualTokenReserves))
    => ammHist[2].sol_amount <= ammHist[1].sol_amount

C9_Witness ==
    /\ RoundTrip
    /\ ammOrigin = "fromBondingCurveAccount"
    /\ ammHist[1].t > 0
    /\ ammHist[1].t <= ammHist[1].before.realTokenReserves
    /\ ammHist[1].t < ammHist[1].before.virtualTokenReserves
    /\ ammHist[2].sol_amount > 0
    /\ ammHist[2].sol_amount <= ammHist[1].sol_amount

\* The change of virtualSolReserves x virtualTokenReserves over call i.
Drift(i) == Product(ammHist[i].after) - Product(ammHist[i].before)

\* A successful applyBuy that starts from non-negative virtual reserves and
\* buys less than the virtual token reserves.
RegularBuy(i) ==
    /\ ammHist[i].op = "applyBuy" /\ ammHist[i].ok
    /\ ammHist[i].before.virtualSolReserves >= 0
    /\ ammHist[i].token_amount >= 0
    /\ ammHist[i].token_amount < ammHist[i].before.virtualTokenReserves

\* C10 (as claimed): applyBuy moves the product by no more than the +1
\* rounding bias, whatever the size of the reserves.
C10_DriftWithinRoundingBias ==
    \A i \in 1..Len(ammHist) :
        RegularBuy(i) => Abs(Drift(i)) <= RoundingBias

\* C10 (amended): applyBuy raises the product by at least 1 and by at most the
\* virtual token reserves left after the call: the +1 on virtualSolReserves
\* is multiplied by the remaining virtualTokenReserves.
C10_DriftWithinRemainingTokens ==
    \A i \in 1..Len(ammHist) :
        RegularBuy(i) =>
            /\ Drift(i) >= RoundingBias
            /\ Drift(i) <= RoundingBias * ammHist[i].after.virtualTokenReserves

\* The drift reaches the largest initial virtual token reserve of the model.
C10_Witness ==
    \E i \in 1..Len(ammHist) :
        /\ RegularBuy(i)
        /\ Drift(i) = ammHist[i].after.virtualTokenReserves
        /\ Drift(i) = MaxReserve

\* A successful applySell that starts from non-negative virtual sol reserves
\* and leaves positive virtual token reserves.
RegularSell(i) ==
    /\ ammHist[i].op = "applySell" /\ ammHist[i].ok
    /\ ammHist[i].before.virtualSolReserves >= 0
    /\ ammHist[i].after.virtualTokenReserves > 0

\* The product moves by rounding only: the two truncating divisions of
\* getSellPrice lose less than virtualSolReserves / initialVirtualTokenReserves
\* + 1 lamports, each worth the virtual token reserves after the call, and
\* they never round in the seller's favour.
WithinSellRounding(i) ==
    /\ Drift(i) >= 0
    /\ Drift(i) * ammHist[i].before.initialVirtualTokenReserves
         < (ammHist[i].before.virtualSolReserves
                + ammHist[i].before.initialVirtualTokenReserves)
            * ammHist[i].after.virtualTokenReserves

SellProceeds(Div(_, _), before, t) ==
    Min(Div(before.virtualSolReserves
                * Div(t * before.initialVirtualTokenReserves,
                      before.virtualTokenReserves + t),
            before.initialVirtualTokenReserves),
        before.realSolReserves)

SoldFor(call, s) ==
    /\ call.token_amount = call.t
    /\ call.sol_amount = s
    /\ call.after.virtualTokenReserves = call.before.virtualTokenReserves + call.t
    /\ call.after.realTokenReserves = call.before.realTokenReserves + call.t
    /\ call.after.virtualSolReserves = call.before.virtualSolReserves - s
    /\ call.after.realSolReserves = call.before.realSolReserves - s

C29_BuyClampedThenPriced ==
    \A i \in 1..Len(ammHist) :
        ammHist[i].op = "applyBuy"
        => LET b == ammHist[i].before
               c == Min(ammHist[i].t, b.realTokenReserves)
               price == AMM_getBuyPrice(b, c)
           IN  /\ ammHist[i].ok = price.ok
               /\ ammHist[i].ok =>
                    /\ ammHist[i].token_amount = c
                    /\ ammHist[i].sol_amount = price.val
                    /\ ammHist[i].after.virtualTokenReserves = b.virtualTokenReserves - c
                    /\ ammHist[i].after.realTokenReserves = b.realTokenReserves - c
                    /\ ammHist[i].after.virtualSolReserves = b.virtualSolReserves + price.val
                    /\ ammHist[i].after.realSolReserves = b.realSolReserves + price.val

\* A buy that the clamp shortened and that moved the reserves.
C29_Witness ==
    \E i \in 1..Len(ammHist) :
        /\ ammHist[i].op = "applyBuy" /\ ammHist[i].ok
        /\ ammHist[i].t > ammHist[i].before.realTokenReserves
        /\ ammHist[i].token_amount = ammHist[i].before.realTokenReserves
        /\ ammHist[i].token_amount > 0
        /\ ammHist[i].sol_amount > 0

\* The instance as it was constructed.
Constructed == IF ammHist = <<>> THEN amm ELSE ammHist[1].before

SolGap(a) == a.virtualSolReserves - a.realSolReserves
TokenGap(a) == a.virtualTokenReserves - a.realTokenReserves

\* C35: across any sequence of applyBuy and applySell calls,
\* virtualSolReserves - realSolReserves and virtualTokenReserves -
\* realTokenReserves keep the values they had at construction: every call
\* changes a virtual reserve and its real reserve by the same amount.
C35_VirtualRealGapsConstant ==
    /\ SolGap(amm) = SolGap(Constructed)
    /\ TokenGap(amm) = TokenGap(Constructed)
    /\ \A i \in 1..Len(ammHist) :
        /\ SolGap(ammHist[i].after) = SolGap(Constructed)
        /\ TokenGap(ammHist[i].after) = TokenGap(Constructed)
        /\ ammHist[i].after.virtualSolReserves - ammHist[i].before.virtualSolReserves
              = ammHist[i].after.realSolReserves - ammHist[i].before.realSolReserves
        /\ ammHist[i].after.virtualTokenReserves - ammHist[i].before.virtualTokenReserves
              = ammHist[i].after.realTokenReserves - ammHist[i].before.realTokenReserves

\* A buy that took tokens and SOL, then a sale that paid SOL out, on an
\* instance whose virtual and real reserves differ.
C35_Witness ==
    /\ Len(ammHist) = 2
    /\ SolGap(Constructed) > 0
    /\ TokenGap(Constructed) > 0
    /\ ammHist[1].op = "applyBuy" /\ ammHist[1].ok
    /\ ammHist[1].token_amount > 0 /\ ammHist[1].sol_amount > 0
    /\ ammHist[2].op = "applySell" /\ ammHist[2].ok
    /\ ammHist[2].token_amount > 0 /\ ammHist[2].sol_amount > 0

\* Non-negative reserves, initialVirtualTokenReserves > 0 and
\* realTokenReserves < virtualTokenReserves.
Funded(a) ==
    /\ a.virtualSolReserves >= 0 /\ a.virtualTokenReserves >= 0
    /\ a.realSolReserves >= 0 /\ a.realTokenReserves >= 0
    /\ a.initialVirtualTokenReserves > 0
    /\ a.realTokenReserves < a.virtualTokenReserves

\* C36: on an instance constructed with non-negative reserves,
\* initialVirtualTokenReserves > 0 and realTokenReserves <
\* virtualTokenReserves, the product virtualSolReserves * virtualTokenReserves
\* never decreases over applyBuy and applySell calls with amounts >= 0.
C36_ProductNeverDecreases ==
    Funded(Constructed) =>
        /\ Product(amm) >= Product(Constructed)
        /\ \A i \in 1..Len(ammHist) :
            Product(ammHist[i].after) >= Product(ammHist[i].before)

\* A buy raised the product and a sale that paid SOL out kept it.
C36_Witness ==
    /\ Funded(Constructed)
    /\ Len(ammHist) = 2
    /\ ammHist[1].op = "applyBuy" /\ ammHist[1].token_amount > 0
    /\ Product(ammHist[1].after) > Product(ammHist[1].before)
    /\ ammHist[2].op = "applySell" /\ ammHist[2].sol_amount > 0
    /\ Product(ammHist[2].after) >= Product(ammHist[2].before)

\* C37: from non-negative reserves, after any sequence of applyBuy and
\* applySell calls with amounts >= 0, realTokenReserves and realSolReserves
\* are not negative: a buy is clamped to realTokenReserves, a payout to
\* realSolReserves.
C37_RealReservesNeverNegative ==
    /\ amm.realTokenReserves >= 0
    /\ amm.realSolReserves >= 0
    /\ \A i \in 1..Len(ammHist) :
        /\ ammHist[i].after.realTokenReserves >= 0
        /\ ammHist[i].after.realSolReserves >= 0

\* A buy asked for more than realTokenReserves and emptied it; the sale that
\* followed was worth more than realSolReserves and emptied that.
C37_Witness ==
    /\ Len(ammHist) = 2
    /\ ammHist[1].op = "applyBuy" /\ ammHist[1].ok
    /\ ammHist[1].t > ammHist[1].before.realTokenReserves
    /\ ammHist[1].after.realTokenReserves = 0
    /\ ammHist[1].sol_amount > 0
    /\ ammHist[2].op = "applySell" /\ ammHist[2].ok
    /\ ammHist[2].sol_amount = ammHist[2].before.realSolReserves
    /\ ammHist[2].after.realSolReserves = 0
    /\ ammHist[2].before.virtualSolReserves * ammHist[2].t
          > ammHist[2].before.realSolReserves * ammHist[2].after.virtualTokenReserves

\* C40: AMM.getBuyPrice(0) returns 1 whenever virtualTokenReserves > 0, so
\* that applyBuy(0) raises virtualSolReserves and realSolReserves by 1, where
\* getBuyPrice(0) of the bonding curve account with the same reserves
\* returns 0.
C40_ZeroTokensCostOne ==
    \A i \in 1..Len(ammHist) :
        (ammHist[i].t = 0 /\ ammHist[i].before.virtualTokenReserves > 0) =>
            LET before == ammHist[i].before
                after == ammHist[i].after
                curve == BondingCurveAccount(
                            before.virtualTokenReserves, before.virtualSolReserves,
                            before.realTokenReserves, before.realSolReserves, 0, FALSE)
            IN  /\ BondingCurve_getBuyPrice(curve, 0) = Ok(0)
                /\ ammHist[i].op = "getBuyPrice" =>
                        ammHist[i].ok /\ ammHist[i].sol_amount = 1
                /\ ammHist[i].op = "applyBuy" =>
                        /\ ammHist[i].ok
                        /\ ammHist[i].token_amount = 0
                        /\ ammHist[i].sol_amount = 1
                        /\ after.virtualSolReserves = before.virtualSolReserves + 1
                        /\ after.realSolReserves = before.realSolReserves + 1
                        /\ after.virtualTokenReserves = before.virtualTokenReserves
                        /\ after.realTokenReserves = before.realTokenReserves

\* applyBuy(0) charged one lamport and getBuyPrice(0) quotes one more.
C40_Witness ==
    /\ Len(ammHist) = 2
    /\ ammHist[1].op = "applyBuy" /\ ammHist[1].t = 0
    /\ ammHist[1].before.virtualTokenReserves > 0
    /\ ammHist[1].after.realSolReserves = ammHist[1].before.realSolReserves + 1
    /\ ammHist[2].op = "getBuyPrice" /\ ammHist[2].t = 0
    /\ ammHist[2].sol_amount = 1

(***************************************************************************)
(* SpecGlobal: GlobalAccount.getInitialBuyPrice on decoded protocol         *)
(* parameters (u64 fields), and the two quotes it is compared with: the    *)
(* getBuyPrice of a BondingCurveAccount holding the initial reserves, and  *)
(* the getBuyPrice of AMM.fromGlobalAccount for the tokens quoted.         *)
(***************************************************************************)
\* The mutant of C13: the "+ 1n" left out of r.
GlobalAccount_getInitialBuyPrice_NoBias(g, amount) ==
    IF amount <= 0 THEN Ok(0)
    ELSE LET q == BigDiv(g.initialVirtualSolReserves * g.initialVirtualTokenReserves,
                         g.initialVirtualSolReserves + amount)
         IN  IF ~q.ok THEN q
             ELSE Ok(Min(g.initialVirtualTokenReserves - q.val,
                         g.initialRealTokenReserves))

GlobalAccount_getInitialBuyPrice(g, amount) ==
    IF amount <= 0 THEN Ok(0)
    ELSE LET n == g.initialVirtualSolReserves * g.initialVirtualTokenReserves
             i == g.initialVirtualSolReserves + amount
             q == BigDiv(n, i)
         IN  IF ~q.ok THEN q
             ELSE LET r == q.val + 1
                      s == g.initialVirtualTokenReserves - r
                  IN  Ok(IF s < g.initialRealTokenReserves
                         THEN s ELSE g.initialRealTokenReserves)

\* A curve that holds the protocol's initial reserves and has sold nothing.
SeededCurve(g) ==
    BondingCurveAccount(g.initialVirtualTokenReserves, g.initialVirtualSolReserves,
                        g.initialRealTokenReserves, 0, 0, FALSE)

InitialTokens == 0..MaxInitialTokens

InitGlobal ==
    /\ \E ivt \in InitialTokens, ivs \in Reserves, irt \in InitialTokens :
            globalAccount = GlobalAccount(ivt, ivs, irt)
    /\ globalQuery = [fn |-> "none", amount |-> 0, tokens |-> Ok(0),
                      curve |-> <<>>, inverse |-> <<>>]
    /\ IdleCurve
    /\ IdleAmm
    /\ IdleCab
    /\ IdleJito
    /\ IdleTrade
    /\ IdleUtil

UnchangedButQuery ==
    UNCHANGED <<bc, bcQuery, amm, ammOrigin, ammHist, cab, ledger, relay,
                globalAccount, jito, engine,
                trade, chain, util>>

\* globalAccount.getInitialBuyPrice(amount)
QueryInitialBuyPrice ==
    /\ globalQuery.fn = "none"
    /\ \E a \in QueryAmounts :
        globalQuery' = [globalQuery EXCEPT
                            !.fn = "getInitialBuyPrice", !.amount = a,
                            !.tokens = GlobalAccount_getInitialBuyPrice(globalAccount, a)]
    /\ UnchangedButQuery

\* The same amount quoted by getBuyPrice of the seeded curve.
QuerySeededCurve ==
    /\ globalQuery.fn = "getInitialBuyPrice"
    /\ globalQuery.curve = <<>>
    /\ globalQuery' = [globalQuery EXCEPT
            !.curve = <<BondingCurve_getBuyPrice(SeededCurve(globalAccount),
                                                 globalQuery.amount)>>]
    /\ UnchangedButQuery

\* AMM.fromGlobalAccount(globalAccount).getBuyPrice(tokens quoted)
QueryInverse ==
    /\ globalQuery.fn = "getInitialBuyPrice"
    /\ globalQuery.inverse = <<>>
    /\ globalQuery.tokens.ok
    /\ globalQuery' = [globalQuery EXCEPT
            !.inverse = <<AMM_getBuyPrice(fromGlobalAccount(globalAccount),
                                          globalQuery.tokens.val)>>]
    /\ UnchangedButQuery

NextGlobal == QueryInitialBuyPrice \/ QuerySeededCurve \/ QueryInverse

SpecGlobal == InitGlobal /\ [][NextGlobal]_vars

\* The quote of a positive amount that min() left alone: it is s itself.
UnclampedQuote ==
    /\ globalQuery.fn = "getInitialBuyPrice"
    /\ globalQuery.amount > 0
    /\ globalQuery.tokens.ok
    /\ globalQuery.tokens.val =
            globalAccount.initialVirtualTokenReserves
            - (TruncDiv(globalAccount.initialVirtualSolReserves
                            * globalAccount.initialVirtualTokenReserves,
                        globalAccount.initialVirtualSolReserves + globalQuery.amount)
               + 1)

\* C12 (as claimed): for every GlobalAccount and every a > 0 whose quote
\* t = getInitialBuyPrice(a) is not clamped, fromGlobalAccount(g).getBuyPrice(t)
\* returns a exactly.
C12_InverseQuoteExact ==
    (UnclampedQuote /\ globalQuery.inverse # <<>>)
        => globalQuery.inverse[1] = Ok(globalQuery.amount)

\* The reserves dwarf the amount: vs * vt >= (vs + a) * (vs + a - 1).
DeepReserves ==
    globalAccount.initialVirtualSolReserves * globalAccount.initialVirtualTokenReserves
        >= (globalAccount.initialVirtualSolReserves + globalQuery.amount)
            * (globalAccount.initialVirtualSolReserves + globalQuery.amount - 1)

\* C12 (amended): the inverse quote of an unclamped quote returns, never
\* exceeds a, and equals a exactly when vs * vt >= (vs + a) * (vs + a - 1).
C12_InverseQuoteExactOnDeepReserves ==
    (UnclampedQuote /\ globalQuery.inverse # <<>>)
        => /\ globalQuery.inverse[1].ok
           /\ globalQuery.inverse[1].val <= globalQuery.amount
           /\ DeepReserves => globalQuery.inverse[1].val = globalQuery.amount

\* A quote of more than one token whose inverse is the amount, bit for bit.
C12_Witness ==
    /\ UnclampedQuote
    /\ DeepReserves
    /\ globalQuery.tokens.val > 1
    /\ globalQuery.inverse = <<Ok(globalQuery.amount)>>

\* C13: for every amount, positive or not, getInitialBuyPrice returns what
\* getBuyPrice returns on a non-complete curve holding the initial reserves.
C13_InitialPriceIsSeededCurvePrice ==
    (globalQuery.fn = "getInitialBuyPrice" /\ globalQuery.curve # <<>>)
        => globalQuery.curve[1] = globalQuery.tokens

\* Both quotes made, of a positive amount, for a positive number of tokens.
C13_Witness ==
    /\ globalQuery.fn = "getInitialBuyPrice"
    /\ globalQuery.amount > 0
    /\ globalQuery.curve # <<>>
    /\ globalQuery.curve[1].ok
    /\ globalQuery.curve[1].val > 0
    /\ globalQuery.curve[1] = globalQuery.tokens

(***************************************************************************)
(* createAndBuy (pumpfun.ts), sendTx / buildTx (util.ts) and               *)
(* jitoWithAxios (jitoWithAxios.ts), run against a ledger and a relay.     *)
(*                                                                         *)
(* Ledger: the mint's bonding-curve account exists or not; the create      *)
(* instruction makes the mint and its curve, so it executes only while     *)
(* they do not exist.  The payload transactions carry the blockhash        *)
(* fetched when they were built; the tip transaction of an attempt carries *)
(* a later one, so when the confirmation of the tip runs past its          *)
(* lastValidBlockHeight the payload's blockhash has expired too.           *)
(* Relay: a bundle lands whole or not at all.                              *)
(***************************************************************************)
MinPercent == 10
MaxPercent == 25
PercentBase == 100
SlippageBasisPoints == 300

calculateWithSlippageBuy(amount, basisPoints) ==
    amount + TruncDiv(amount * basisPoints, FeeDenominator)

\* The mutant of C27: the slippage added instead of subtracted.
calculateWithSlippageSell_Added(amount, basisPoints) ==
    amount + TruncDiv(amount * basisPoints, FeeDenominator)

calculateWithSlippageSell(amount, basisPoints) ==
    amount - TruncDiv(amount * basisPoints, FeeDenominator)

\* getRandomInt(10, 25): any integer of the range
RandomPercents == MinPercent..MaxPercent

\* createAndBuy's buyAmountSolWithRandom
buyAmountSolWithRandom(buyAmountSol, randomPercent) ==
    TruncDiv(buyAmountSol, PercentBase)
        * (IF randomPercent % 2 = 1
           THEN PercentBase + randomPercent
           ELSE PercentBase - randomPercent)

BuyAmounts == {0, 100, 250}

\* CREATION_FEE = BigInt(0.01 * LAMPORTS_PER_SOL)
CREATION_FEE == 10000000

\* TRANSACTION_FEE_PERCENT = 0.01, the double 5764607523034235 * 2^-59
TRANSACTION_FEE_PERCENT ==
    Double(FALSE, BitsOfDecimal(<<5, 7, 6, 4, 6, 0, 7, 5, 2, 3, 0, 3, 4, 2, 3, 5>>), 59)

calculateTransactionFee(dataSize) ==
    IF ~dataSize.defined THEN BigIntOfInt(0)
    ELSE BigInt(Math_floor(NumberMul(Number(dataSize), TRANSACTION_FEE_PERCENT)))

\* The fee of a size the model holds as an integer, as an integer.
transactionFee(n) == IntOfBigInt(calculateTransactionFee(BigIntOfInt(n)))

\* config.jitoFee, in lamports
JitoFees == {50, 1000000}

\* The curve the program's create instruction opens, and two curves a mint
\* that already exists may have.
OpenCurve == BondingCurveAccount(1000, 1000, 500, 0, 1000, FALSE)
FinishedCurve == BondingCurveAccount(500, 2000, 0, 1000, 1000, TRUE)

NoResult == [confirmed |-> FALSE, jitoTxsignature |-> "none"]
CreateTx == [kind |-> "create", buyer |-> 0, amount |-> 0, maxSolCost |-> 0]
\* SystemProgram.transfer({ fromPubkey, toPubkey, lamports }); "tipAccount"
\* stands for the address picked from the tip accounts.
TransferTo(toPubkey) == [program |-> "transfer", toPubkey |-> toPubkey]

\* jitoFeeTx of jitoWithAxios: the transfer of jitoFee to the selected tip
\* account, then feeInstruction, the transfer of createFeeInstruction.
TipTx ==
    [kind |-> "tip", buyer |-> 0, amount |-> 0, maxSolCost |-> 0,
     instructions |-> <<TransferTo("tipAccount"), TransferTo("FEE_RECIPIENT")>>]
BuyTx(buyer, amount, maxSolCost) ==
    [kind |-> "buy", buyer |-> buyer, amount |-> amount, maxSolCost |-> maxSolCost]

\* calculateTransactionFee of the sizes createAndBuy passes to it
transactionFees == [n \in {12, 24} \cup JitoFees |-> transactionFee(n)]

\* The lamports a transaction transfers to FEE_RECIPIENT when it executes.
\* buildTx and sendTx add a transfer of calculateTransactionFee(the byte
\* length of the data of the first instruction): 12 bytes for the creation
\* transaction, whose first instruction is the creation-fee transfer, 24 for
\* a buy.  The tip transaction carries createFeeInstruction(sdkFee).
feeTransfers(tx, jitoFee) ==
    CASE tx.kind = "create" -> CREATION_FEE + transactionFees[12]
      [] tx.kind = "buy" -> transactionFees[24]
      [] tx.kind = "tip" -> transactionFees[jitoFee]

RECURSIVE bundleFeeTransfers(_, _)
bundleFeeTransfers(txs, jitoFee) ==
    IF txs = <<>> THEN 0
    ELSE feeTransfers(Head(txs), jitoFee) + bundleFeeTransfers(Tail(txs), jitoFee)

InitCab ==
    /\ \E n \in 0..MaxBuyers, a \in BuyAmounts, jitoFee \in JitoFees :
        cab = [pc |-> "createTokenMetadata", nBuyers |-> n, buyAmountSol |-> a,
               jitoFee |-> jitoFee,
               createVersionedTx |-> <<>>, buyTxs |-> <<>>, draws |-> <<>>,
               direct |-> "none",
               result |-> NoResult, failures |-> 0, error |-> "none"]
    /\ \E exists \in BOOLEAN, c \in {OpenCurve, FinishedCurve} :
        ledger = [curveExists |-> exists, curve |-> c, expired |-> FALSE,
                  landed |-> <<>>, feeRecipient |-> 0]
    /\ relay = [lastBundle |-> <<>>, requests |-> 0]
    /\ IdleCurve
    /\ IdleAmm
    /\ IdleGlobal
    /\ IdleJito
    /\ IdleTrade
    /\ IdleUtil

Fail(e) == [cab EXCEPT !.pc = "failed", !.error = e]
Saturate(n) == IF n < MaxAttempts THEN n + 1 ELSE n

UnchangedPricing ==
    UNCHANGED <<bc, bcQuery, amm, ammOrigin, ammHist, globalAccount, globalQuery, jito, engine,
                trade, chain, util>>

\* const tokenMetadata = await this.createTokenMetadata(...): the upload
\* answers or throws.
createTokenMetadata ==
    /\ cab.pc = "createTokenMetadata"
    /\ \/ cab' = [cab EXCEPT !.pc = "buildTx"]
       \/ cab' = Fail("TransportError")
    /\ UNCHANGED <<ledger, relay>>
    /\ UnchangedPricing

\* getCreateInstructions, createFeeInstruction and buildTx of the creation
\* transaction; buildTx fetches the blockhash and may throw.
buildTx ==
    /\ cab.pc = "buildTx"
    /\ \/ cab' = [cab EXCEPT
                    !.createVersionedTx = <<CreateTx>>,
                    !.pc = IF cab.buyAmountSol > 0 /\ cab.nBuyers > 0
                           THEN "buyers" ELSE "sendTx"]
       \/ cab' = Fail("TransportError")
    /\ UNCHANGED <<ledger, relay>>
    /\ UnchangedPricing

\* getBondingCurveAccount: the decoded account, or null when there is none.
getBondingCurveAccount ==
    IF ledger.curveExists THEN Ok(ledger.curve) ELSE Throw("AccountNotFound")

\* The curve after the buys already built were applied to it.
RECURSIVE AdvancedCurve(_, _, _)
AdvancedCurve(c, txs, draws) ==
    IF txs = <<>> THEN c
    ELSE AdvancedCurve(
            [c EXCEPT !.virtualSolReserves = @ + Head(draws).buyAmountSolWithRandom,
                      !.virtualTokenReserves = @ - Head(txs).amount,
                      !.realTokenReserves = @ - Head(txs).amount],
            Tail(txs), Tail(draws))

\* The mutant of C34: each buyer is priced on the curve advanced by the
\* buyers before it.
getBuyInstructionsBySolAmount_Advancing(buyer, buyAmountSol, slippageBasisPoints) ==
    LET bondingCurveAccount == getBondingCurveAccount IN
    IF ~bondingCurveAccount.ok THEN bondingCurveAccount
    ELSE LET buyAmount == BondingCurve_getBuyPrice(
                            AdvancedCurve(bondingCurveAccount.val, cab.buyTxs, cab.draws),
                            buyAmountSol)
         IN  IF ~buyAmount.ok THEN buyAmount
             ELSE Ok(BuyTx(buyer, buyAmount.val,
                           calculateWithSlippageBuy(buyAmountSol, slippageBasisPoints)))

\* getBuyInstructionsBySolAmount: the quote of one buyer, or the error thrown.
getBuyInstructionsBySolAmount(buyer, buyAmountSol, slippageBasisPoints) ==
    LET bondingCurveAccount == getBondingCurveAccount IN
    IF ~bondingCurveAccount.ok THEN bondingCurveAccount
    ELSE LET buyAmount == BondingCurve_getBuyPrice(bondingCurveAccount.val, buyAmountSol)
         IN  IF ~buyAmount.ok THEN buyAmount
             ELSE Ok(BuyTx(buyer, buyAmount.val,
                           calculateWithSlippageBuy(buyAmountSol, slippageBasisPoints)))

\* One turn of "for (const buyer of buyers)".  draws keeps the turn's two
\* locals, randomPercent and buyAmountSolWithRandom, beside its transaction.
nextBuyer ==
    /\ cab.pc = "buyers"
    /\ \E randomPercent \in RandomPercents :
        LET buyer == Len(cab.buyTxs) + 1
            solAmount == buyAmountSolWithRandom(cab.buyAmountSol, randomPercent)
            buyTx == getBuyInstructionsBySolAmount(buyer, solAmount, SlippageBasisPoints)
        IN  cab' = IF ~buyTx.ok THEN Fail(buyTx.err)
                   ELSE [cab EXCEPT
                            !.buyTxs = Append(@, buyTx.val),
                            !.draws = Append(@, [randomPercent |-> randomPercent,
                                                 buyAmountSolWithRandom |-> solAmount]),
                            !.pc = IF buyer = cab.nBuyers THEN "sendTx" ELSE "buyers"]
    /\ UNCHANGED <<ledger, relay>>
    /\ UnchangedPricing

\* Whether the create instruction can execute: the mint is new and the
\* payload's blockhash is still valid.
CreateExecutable == ~ledger.curveExists /\ ~ledger.expired

\* await sendTx(newTx): the direct submission of the creation transaction.
\*   threw:     buildVersionedTx threw before the try block
\*   rejected:  simulateTransaction or sendTransaction threw (caught)
\*   lost:      sent, but getTxDetails found no transaction
\*   landed:    sent and found; the mint and its curve now exist
sendTx ==
    /\ cab.pc = "sendTx"
    /\ \/ /\ cab' = Fail("TransportError")
          /\ UNCHANGED ledger
       \/ /\ \E o \in {"rejected", "lost"} :
                cab' = [cab EXCEPT !.direct = o, !.pc = "jitoWithAxios"]
          /\ UNCHANGED ledger
       \/ /\ ~ledger.curveExists
          /\ cab' = [cab EXCEPT !.direct = "landed", !.pc = "jitoWithAxios"]
          /\ ledger' = [ledger EXCEPT
                            !.curveExists = TRUE, !.curve = OpenCurve,
                            !.landed = Append(@, "direct"),
                            !.feeRecipient = @ + feeTransfers(CreateTx, cab.jitoFee)]
    /\ UNCHANGED relay
    /\ UnchangedPricing

\* The mutant of C4: the buys listed ahead of the creation transaction.
BundleArgs_BuysFirst(createVersionedTx, buyTxs) == buyTxs \o createVersionedTx

\* [createVersionedTx, ...buyTxs]
BundleArgs(createVersionedTx, buyTxs) == createVersionedTx \o buyTxs

\* serializedTransactions: the tip transaction, then the transactions given
serializedTransactions(transactions) == <<TipTx>> \o transactions

\* The mutant of C1: the loop gives up after an unconfirmed attempt.
LoopExit_GiveUp(result, failures) == result.confirmed \/ failures > 0

\* if (result.confirmed) break;
LoopExit(result, failures) == result.confirmed

\* One jitoWithAxios call has returned `result`: leave the loop or go round.
Returned(result) ==
    LET failures == IF result.confirmed THEN cab.failures ELSE Saturate(cab.failures)
    IN  [cab EXCEPT
            !.result = result,
            !.failures = failures,
            !.pc = IF LoopExit(result, failures) THEN "done" ELSE "jitoWithAxios"]

\* The mutant of C19: the confirmation's error ignored.
Confirmation_IgnoreErr(err) == [confirmed |-> TRUE, jitoTxsignature |-> "tip"]

\* return { confirmed: !confirmation.value.err, jitoTxsignature }
Confirmation(err) == [confirmed |-> ~err, jitoTxsignature |-> "tip"]

\* The mutant of C30: the bundle posted to two endpoints.
sendBundleRequests_TwoEndpoints(requests) == Saturate(Saturate(requests))

\* endpoints = [config.blockEngineUrl]; requests = endpoints.map(axios.post):
\* one sendBundle request, counted up to MaxAttempts.
sendBundleRequests(requests) == Saturate(requests)

\* getLatestBlockhash (or the signing) throws: caught, { confirmed: false }.
jitoThrows ==
    /\ cab.pc = "jitoWithAxios"
    /\ cab' = Returned(NoResult)
    /\ UNCHANGED <<ledger, relay>>
    /\ UnchangedPricing

\* The sendBundle request fails (the relay rejects it, or the transport
\* does): no successful result, { confirmed: false }.
sendBundleFails ==
    /\ cab.pc = "jitoWithAxios"
    /\ cab' = Returned(NoResult)
    /\ relay' = [relay EXCEPT !.requests = sendBundleRequests(@)]
    /\ UNCHANGED ledger
    /\ UnchangedPricing

\* The relay acknowledges the bundle; jitoWithAxios awaits confirmTransaction.
sendBundleAcked ==
    /\ cab.pc = "jitoWithAxios"
    /\ cab' = [cab EXCEPT !.pc = "confirmTransaction"]
    /\ relay' = [lastBundle |->
                    serializedTransactions(BundleArgs(cab.createVersionedTx, cab.buyTxs)),
                 requests |-> sendBundleRequests(relay.requests)]
    /\ UNCHANGED ledger
    /\ UnchangedPricing

\* The bundle lands whole, so its tip transaction is confirmed without error.
confirmLands ==
    /\ cab.pc = "confirmTransaction"
    /\ CreateExecutable
    /\ ledger' = [ledger EXCEPT
                    !.curveExists = TRUE, !.curve = OpenCurve,
                    !.landed = Append(@, "bundle"),
                    !.feeRecipient = @ + bundleFeeTransfers(relay.lastBundle, cab.jitoFee)]
    /\ cab' = Returned(Confirmation(FALSE))
    /\ UNCHANGED relay
    /\ UnchangedPricing

\* confirmTransaction runs past the tip's lastValidBlockHeight and throws:
\* caught, { confirmed: false }.  The older payload blockhash has expired.
confirmExpires ==
    /\ cab.pc = "confirmTransaction"
    /\ ledger' = [ledger EXCEPT !.expired = TRUE]
    /\ cab' = Returned(NoResult)
    /\ UNCHANGED relay
    /\ UnchangedPricing

\* confirmTransaction answers with value.err set: { confirmed: false }.
confirmErr ==
    /\ cab.pc = "confirmTransaction"
    /\ cab' = Returned(Confirmation(TRUE))
    /\ UNCHANGED <<ledger, relay>>
    /\ UnchangedPricing

\* Time passes: the blockhash of the built payload expires.
blockhashExpires ==
    /\ cab.pc \in {"buyers", "sendTx", "jitoWithAxios", "confirmTransaction"}
    /\ ~ledger.expired
    /\ ledger' = [ledger EXCEPT !.expired = TRUE]
    /\ UNCHANGED <<cab, relay>>
    /\ UnchangedPricing

Next ==
    \/ createTokenMetadata
    \/ buildTx
    \/ nextBuyer
    \/ sendTx
    \/ jitoThrows
    \/ sendBundleFails
    \/ sendBundleAcked
    \/ confirmLands
    \/ confirmExpires
    \/ confirmErr
    \/ blockhashExpires

Spec == InitCab /\ [][Next]_vars

\* The relay and the ledger are fair: a request is acknowledged if it keeps
\* being made, and a bundle that keeps being executable lands.
FairSpec ==
    /\ Spec
    /\ WF_vars(Next)
    /\ SF_vars(sendBundleAcked)
    /\ SF_vars(confirmLands)

\* C1: createAndBuy returns only a confirmed result; after an unconfirmed
\* attempt, however many there were, it is back at a jitoWithAxios call, and
\* every bundle sent is the whole bundle: tip, creation, every buy.
C1_RetriesUntilConfirmed ==
    /\ cab.pc = "done" => cab.result.confirmed
    /\ cab.failures > 0 =>
            cab.pc \in {"jitoWithAxios", "confirmTransaction", "done"}
    /\ (cab.pc = "jitoWithAxios" /\ cab.failures > 0) => ~cab.result.confirmed
    /\ relay.lastBundle # <<>> =>
        /\ relay.lastBundle = <<TipTx>> \o cab.createVersionedTx \o cab.buyTxs
        /\ cab.createVersionedTx = <<CreateTx>>
        /\ Len(cab.buyTxs) = IF cab.buyAmountSol > 0 THEN cab.nBuyers ELSE 0

\* The whole bundle goes out again after MaxAttempts unconfirmed attempts.
C1_Witness ==
    /\ cab.failures = MaxAttempts
    /\ cab.pc = "confirmTransaction"
    /\ relay.requests = MaxAttempts
    /\ Len(relay.lastBundle) = 2 + cab.nBuyers
    /\ cab.nBuyers > 0

\* C2 (as claimed): with a fair relay and ledger, a createAndBuy that has
\* reached its retry loop eventually returns with confirmed = true, whatever
\* the direct submission did.
C2_EventuallyConfirmed ==
    (cab.pc = "jitoWithAxios") ~> (cab.pc = "done" /\ cab.result.confirmed)

\* C3 (as claimed): with buyAmountSol > 0, a buyer and no bonding-curve
\* account yet, createAndBuy does not fail with AccountNotFound before
\* anything has been submitted.
C3_PricesBeforeCreation ==
    (cab.buyAmountSol > 0 /\ cab.nBuyers >= 1 /\ ~ledger.curveExists)
        => ~(/\ cab.pc = "failed"
             /\ cab.error = "AccountNotFound"
             /\ cab.direct = "none"
             /\ relay.requests = 0)

C19_ConfirmedOnlyOnCleanConfirmation ==
    cab.pc # "idle" =>
        /\ cab.result.confirmed =>
            /\ relay.lastBundle # <<>>
            /\ ledger.landed # <<>>
            /\ ledger.landed[Len(ledger.landed)] = "bundle"
            /\ cab.result.jitoTxsignature = "tip"
        /\ cab.pc = "failed" =>
            /\ cab.failures = 0
            /\ relay.requests = 0
            /\ cab.result = NoResult
        /\ (cab.failures > 0 /\ cab.pc = "jitoWithAxios") => ~cab.result.confirmed

\* An attempt ended by a confirmation error: the value false, and a retry.
C19_Witness ==
    /\ cab.pc = "jitoWithAxios"
    /\ cab.failures > 0
    /\ cab.result = Confirmation(TRUE)
    /\ relay.lastBundle # <<>>

\* C20 (as claimed): when createAndBuy returns, the fee recipient has received
\* exactly the creation fee, once, whatever the buyers, the amounts and the
\* number of attempts; neither the buys nor the tip carry a transaction fee.
C20_OnlyCreationFeeCharged ==
    (cab.pc = "done") => ledger.feeRecipient = CREATION_FEE

(***************************************************************************)
(* SpecBundle: bundle / bull_dozer / build_bundle / onBundleResult         *)
(* (jito.ts) against the block engine.                                     *)
(*                                                                         *)
(* Block engine: sendBundle answers with the id of the bundle or with an   *)
(* error; the result stream of a searcher key delivers accepted, rejected  *)
(* and dropped results of the bundles sent under that key, each naming its *)
(* bundle.  Bundle (jito-ts): addTransactions and addTipTx return an Error *)
(* and add nothing when the bundle would exceed its transaction limit.     *)
(***************************************************************************)
ChunkSize == 3
bundleTransactionLimit == 4
MaxFirst == 2

\* The argument txs of bundle(): each transaction named by its place.
Txs(len) == [k \in 1..len |-> k]

\* The mutant of C32: the number of chunks rounded down.
txNum_Floor(len) == len \div ChunkSize

\* Math.ceil(txs.length / 3)
txNum(len) == (len + ChunkSize - 1) \div ChunkSize

\* newTxs of turn i: txs[downIndex .. upperIndex - 1], those that exist
newTxs(txs, i) ==
    LET downIndex == i * ChunkSize
        upperIndex == Min(Len(txs), (i + 1) * ChunkSize)
    IN  [k \in 1..(upperIndex - downIndex) |-> txs[downIndex + k]]

\* The mutant of C39: the loop stops at the first chunk that failed.
loopContinues_UntilFailure(i, n, successNum) == i < n /\ successNum = i

\* for (let i = 0; i < txNum; i++)
loopContinues(i, n, successNum) == i < n

\* sdkFeeVersionedTx: its one instruction is the transfer of
\* createFeeInstruction.
sdkFeeVersionedTx ==
    [kind |-> "sdkFee", tx |-> 0, instructions |-> <<TransferTo("FEE_RECIPIENT")>>]

\* A transaction of the caller in a bundle; its instructions are the caller's.
Payload(tx) ==
    [kind |-> "payload", tx |-> tx,
     instructions |-> <<[program |-> "payload", toPubkey |-> "none"]>>]

\* The transaction addTipTx builds: one transfer to tipAccount.
bundleTipTx ==
    [kind |-> "tip", tx |-> 0, instructions |-> <<TransferTo("tipAccount")>>]

\* bund.addTransactions(...): its Error is dropped by the caller
addTransactions(bund, txs) ==
    IF Len(bund) + Len(txs) > bundleTransactionLimit THEN bund ELSE bund \o txs

\* bund.addTipTx(...): the bundle with its tip, or an Error
addTipTx(bund) ==
    IF Len(bund) + 1 > bundleTransactionLimit
    THEN Throw("BundleLimit")
    ELSE Ok(bund \o <<bundleTipTx>>)

\* build_bundle up to the sendBundle request
maybeBundle(txs) ==
    addTipTx(addTransactions(<<>>,
        <<sdkFeeVersionedTx>> \o [k \in 1..Len(txs) |-> Payload(txs[k])]))

\* The mutant of C15: one successful chunk is enough.
bundleReturn_AnyChunk(successNum, n) == successNum > 0

\* return successNum === txNum;
bundleReturn(successNum, n) == successNum = n

\* The mutant of C17: the timer resolves the wait as an accepted bundle.
timerResolve_Accepted(first) == 1

\* setTimeout(() => { resolve(first); ... }, 30000)
timerResolve(first) == first

\* The mutant of C38: the result callback goes on after the wait resolved.
callbackReturns_Never(isResolved) == FALSE

\* if (isResolved) return first;
callbackReturns(isResolved) == isResolved

\* resolve(value) of a promise: the first call settles it, later ones do
\* nothing (-1: not settled).
resolve(settled, value) == IF settled = -1 THEN value ELSE settled

\* return bundle_result > 0;
bull_dozer_return(bundle_result) == bundle_result > 0

\* first, isResolved, the pending timer and the promise (settled) are those
\* of the last onBundleResult call; subscribed: that call was made in this
\* turn of the loop or in the one before and its callbacks can still run.
\* late: what ran after the promise was settled.
InitBundle ==
    /\ \E len \in 0..MaxTxs :
        jito = [pc |-> "bundle", len |-> len, i |-> 0, successNum |-> 0,
                chunk |-> <<>>, first |-> 0, isResolved |-> FALSE,
                subscribed |-> FALSE, timer |-> FALSE, settled |-> -1,
                seen |-> {}, late |-> {}, chunks |-> <<>>,
                returned |-> FALSE, value |-> FALSE]
    /\ engine = [bundles |-> <<>>]
    /\ IdleCurve
    /\ IdleAmm
    /\ IdleCab
    /\ IdleGlobal
    /\ IdleTrade
    /\ IdleUtil

UnchangedButJito ==
    UNCHANGED <<bc, bcQuery, amm, ammOrigin, ammHist, cab, ledger, relay,
                globalAccount, globalQuery, trade, chain, util>>

\* What one bull_dozer call did: the chunk, the id of the bundle the engine
\* took (0: none), the results delivered while waiting, the id named by the
\* accepted result that resolved the wait (-1: none), how the call ended, the
\* value onBundleResult resolved with (-1: not called) and the value returned.
ChunkReport(bundleId, acceptedId, outcome, bundle_result, success) ==
    [txs |-> jito.chunk, size |-> Len(jito.chunk), bundleId |-> bundleId,
     seen |-> jito.seen, acceptedId |-> acceptedId, outcome |-> outcome,
     bundle_result |-> bundle_result, success |-> success]

\* const success = await bull_dozer(...); if (success) successNum++;
bullDozerReturned(report) ==
    [jito EXCEPT
        !.pc = "bundle",
        !.i = @ + 1,
        !.successNum = IF report.success THEN @ + 1 ELSE @,
        !.chunks = Append(@, report)]

\* One turn of the for loop up to the bull_dozer call.
nextChunk ==
    /\ jito.pc = "bundle"
    /\ loopContinues(jito.i, txNum(jito.len), jito.successNum)
    /\ jito' = [jito EXCEPT !.pc = "bull_dozer",
                            !.chunk = newTxs(Txs(jito.len), jito.i),
                            !.first = 0, !.isResolved = FALSE,
                            !.subscribed = FALSE, !.timer = FALSE,
                            !.settled = -1, !.seen = {}, !.late = {}]
    /\ UNCHANGED engine
    /\ UnchangedButJito

\* The loop is over: return successNum === txNum.
bundleReturns ==
    /\ jito.pc = "bundle"
    /\ ~loopContinues(jito.i, txNum(jito.len), jito.successNum)
    /\ jito' = [jito EXCEPT
                    !.pc = "done", !.returned = TRUE,
                    !.value = bundleReturn(jito.successNum, txNum(jito.len))]
    /\ UNCHANGED engine
    /\ UnchangedButJito

\* bull_dozer: the key or the searcher client throws, or build_bundle answers
\* an Error before any request (tip accounts, blockhash): return false.
buildFails ==
    /\ jito.pc = "bull_dozer"
    /\ jito' = bullDozerReturned(ChunkReport(0, -1, "buildError", -1, FALSE))
    /\ UNCHANGED engine
    /\ UnchangedButJito

\* build_bundle: addTipTx answers an Error, nothing is sent: return false.
bundleOverLimit ==
    /\ jito.pc = "bull_dozer"
    /\ ~maybeBundle(jito.chunk).ok
    /\ jito' = bullDozerReturned(ChunkReport(0, -1, "bundleLimit", -1, FALSE))
    /\ UNCHANGED engine
    /\ UnchangedButJito

\* search.sendBundle answers an error or throws: return false.
sendBundleRefused ==
    /\ jito.pc = "bull_dozer"
    /\ maybeBundle(jito.chunk).ok
    /\ jito' = bullDozerReturned(ChunkReport(0, -1, "sendError", -1, FALSE))
    /\ UNCHANGED engine
    /\ UnchangedButJito

\* search.sendBundle answers the bundle's id; bull_dozer calls onBundleResult,
\* which starts the timer and subscribes the result callback, and awaits it.
sendBundle ==
    /\ jito.pc = "bull_dozer"
    /\ maybeBundle(jito.chunk).ok
    /\ engine' = [engine EXCEPT !.bundles = Append(@, maybeBundle(jito.chunk).val)]
    /\ jito' = [jito EXCEPT !.pc = "onBundleResult",
                            !.subscribed = TRUE, !.timer = TRUE]
    /\ UnchangedButJito

\* The result callback of onBundleResult: a result of the bundle just sent
\* (id = the number of bundles sent), of an earlier one, or of a bundle sent
\* elsewhere under the same key (id 0).  The first accepted result settles
\* the promise and bull_dozer returns; a result that comes once isResolved
\* is set changes nothing.
onBundleResult ==
    /\ jito.subscribed
    /\ \E id \in 0..Len(engine.bundles), kind \in {"accepted", "rejected", "dropped"} :
        IF callbackReturns(jito.isResolved)
        THEN /\ kind \notin jito.late
             /\ jito' = [jito EXCEPT !.late = @ \cup {kind}]
        ELSE IF kind = "accepted"
        THEN LET first == jito.first + 1
                 settled == resolve(jito.settled, first)
                 report == [ChunkReport(Len(engine.bundles), id, "accepted", settled,
                                        bull_dozer_return(settled))
                                EXCEPT !.seen = @ \cup {kind}]
                 awaited == IF jito.settled = -1 THEN bullDozerReturned(report)
                            ELSE [jito EXCEPT !.late = @ \cup {kind}]
             IN  /\ first <= MaxFirst
                 /\ jito' = [awaited EXCEPT
                                !.first = first, !.isResolved = TRUE,
                                !.settled = settled]
        ELSE /\ kind \notin jito.seen
             /\ jito' = [jito EXCEPT !.seen = @ \cup {kind}]
    /\ UNCHANGED engine
    /\ UnchangedButJito

\* The 30-second timer of onBundleResult fires: resolve(first), which settles
\* the promise, and bull_dozer returns, unless an accepted result settled it
\* before; then isResolved = true.
timerFires ==
    /\ jito.subscribed
    /\ jito.timer
    /\ LET settled == resolve(jito.settled, timerResolve(jito.first))
           report == ChunkReport(Len(engine.bundles), -1, "timeout", settled,
                                 bull_dozer_return(settled))
           awaited == IF jito.settled = -1 THEN bullDozerReturned(report)
                      ELSE [jito EXCEPT !.late = @ \cup {"timer"}]
       IN  jito' = [awaited EXCEPT
                        !.isResolved = TRUE, !.timer = FALSE, !.settled = settled]
    /\ UNCHANGED engine
    /\ UnchangedButJito

NextBundle ==
    \/ nextChunk
    \/ bundleReturns
    \/ buildFails
    \/ bundleOverLimit
    \/ sendBundleRefused
    \/ sendBundle
    \/ onBundleResult
    \/ timerFires

SpecBundle == InitBundle /\ [][NextBundle]_vars

\* C15: bundle(txs) returns true exactly when every one of its
\* ceil(txs.length / 3) chunk submissions returned true.
C15_TrueIffEveryChunkSucceeded ==
    (jito.pc # "idle" /\ jito.returned) =>
        /\ Len(jito.chunks) = txNum(jito.len)
        /\ jito.value = (\A k \in 1..Len(jito.chunks) : jito.chunks[k].success)

\* Two chunks, the second accepted, the first failed: bundle returned false.
C15_Witness ==
    /\ jito.pc = "done"
    /\ Len(jito.chunks) = 2
    /\ ~jito.chunks[1].success
    /\ jito.chunks[2].success
    /\ ~jito.value

\* C16 (as claimed): every bundle handed to the relay holds at most 4
\* transactions, tip and SDK fee included, on the bundle() path and on the
\* createAndBuy path alike.
C16_BundleAtMostFour ==
    /\ jito.pc # "idle" =>
        \A k \in 1..Len(engine.bundles) :
            Len(engine.bundles[k]) <= bundleTransactionLimit
    /\ cab.pc # "idle" => Len(relay.lastBundle) <= bundleTransactionLimit

\* C17: a chunk whose bundle was sent is reported successful exactly when an
\* accepted result was delivered before the timer fired; otherwise, rejected
\* results or none, the wait ended at the timer and the chunk failed.
C17_SuccessIffAcceptedBeforeTimer ==
    jito.pc # "idle" =>
        \A k \in 1..Len(jito.chunks) :
            LET c == jito.chunks[k] IN
            c.bundleId > 0 =>
                /\ c.success = ("accepted" \in c.seen)
                /\ c.success = (c.outcome # "timeout")

\* A rejected result was delivered, the timer ended the wait, the chunk failed.
C17_Witness ==
    /\ jito.pc # "idle"
    /\ \E k \in 1..Len(jito.chunks) :
        /\ jito.chunks[k].bundleId > 0
        /\ jito.chunks[k].seen = {"rejected"}
        /\ jito.chunks[k].outcome = "timeout"
        /\ ~jito.chunks[k].success

\* C18 (as claimed): a chunk is reported successful only on an accepted
\* result that names the bundle just submitted.
C18_AcceptedResultIsOwn ==
    jito.pc # "idle" =>
        \A k \in 1..Len(jito.chunks) :
            jito.chunks[k].success =>
                jito.chunks[k].acceptedId = jito.chunks[k].bundleId

\* C32: bundle(txs) with n transactions makes exactly ceil(n / 3) chunk
\* submissions; chunk i holds the transactions 3i .. 3i + 2 in their order,
\* so that every transaction is in exactly one chunk and no chunk holds more
\* than 3 of them.
C32_ChunksPartitionInOrder ==
    jito.pc # "idle" =>
        /\ \A k \in 1..Len(jito.chunks) :
            LET chunk == jito.chunks[k].txs IN
            /\ Len(chunk) <= 3
            /\ Len(chunk) = Min(3, jito.len - 3 * (k - 1))
            /\ \A j \in 1..Len(chunk) : chunk[j] = Txs(jito.len)[3 * (k - 1) + j]
        /\ jito.returned =>
            /\ 3 * Len(jito.chunks) >= jito.len
            /\ 3 * (Len(jito.chunks) - 1) < jito.len
            /\ \A t \in 1..jito.len :
                Cardinality({c \in (1..Len(jito.chunks)) \X (1..3) :
                                /\ c[2] <= Len(jito.chunks[c[1]].txs)
                                /\ jito.chunks[c[1]].txs[c[2]] = t}) = 1

\* Five transactions went out as a chunk of three and a chunk of two.
C32_Witness ==
    /\ jito.pc = "done"
    /\ jito.len = 5
    /\ Len(jito.chunks) = 2
    /\ jito.chunks[1].txs = <<1, 2, 3>>
    /\ jito.chunks[2].txs = <<4, 5>>

\* The transactions of a bundle that pay the tip.
TipTransactions(b) == {k \in 1..Len(b) : b[k].kind = "tip"}

\* The transaction holds the transfer to the tip account and nothing else.
OnlyTips(tx) ==
    /\ tx.instructions # <<>>
    /\ \A i \in 1..Len(tx.instructions) : tx.instructions[i] = TransferTo("tipAccount")

\* C33 (as claimed): every submitted bundle contains exactly one transaction
\* that pays the relay tip, to an address of the tip accounts, and that
\* transaction holds neither an SDK fee transfer nor a payload instruction,
\* on the bundle() path and on the createAndBuy path alike.
C33_TipTransactionOnlyTips ==
    /\ jito.pc # "idle" =>
        \A n \in 1..Len(engine.bundles) :
            /\ Cardinality(TipTransactions(engine.bundles[n])) = 1
            /\ \A k \in TipTransactions(engine.bundles[n]) :
                    OnlyTips(engine.bundles[n][k])
    /\ (cab.pc # "idle" /\ relay.lastBundle # <<>>) =>
            /\ Cardinality(TipTransactions(relay.lastBundle)) = 1
            /\ \A k \in TipTransactions(relay.lastBundle) :
                    OnlyTips(relay.lastBundle[k])

\* C38: the wait of onBundleResult settles once, with 0 or 1: the first
\* accepted result or the timer, whichever comes first, fixes the value; the
\* counter first never exceeds 1; results and the timer that come later
\* leave the value as it was.
C38_WaitSettlesOnce ==
    jito.pc # "idle" =>
        /\ jito.first \in {0, 1}
        /\ jito.settled \in {-1, 0, 1}
        /\ jito.subscribed => (jito.isResolved <=> jito.settled # -1)
        /\ (jito.subscribed /\ jito.settled # -1) =>
            LET report == jito.chunks[Len(jito.chunks)] IN
            /\ report.bundle_result = jito.settled
            /\ jito.first = jito.settled
            /\ (jito.settled = 1) <=> (report.outcome = "accepted")
            /\ (jito.settled = 0) <=> (report.outcome = "timeout")
        /\ \A k \in 1..Len(jito.chunks) :
            jito.chunks[k].bundleId > 0 => jito.chunks[k].bundle_result \in {0, 1}

\* An accepted result settled the wait with 1; another accepted result and
\* the timer came afterwards.
C38_Witness ==
    /\ jito.pc # "idle"
    /\ jito.subscribed
    /\ jito.settled = 1
    /\ jito.first = 1
    /\ ~jito.timer
    /\ {"accepted", "timer"} \subseteq jito.late
    /\ jito.chunks[Len(jito.chunks)].bundle_result = 1

\* C39: bundle() does not stop at the first failed chunk: when it returns,
\* every chunk was submitted, in order, whatever the earlier ones returned,
\* so it can return false after the relay accepted some of its chunks.
C39_EveryChunkSubmittedDespiteFailures ==
    (jito.pc # "idle" /\ jito.returned) =>
        \A i \in 0..((jito.len + 2) \div 3 - 1) :
            /\ i + 1 <= Len(jito.chunks)
            /\ jito.chunks[i + 1].txs # <<>>
            /\ jito.chunks[i + 1].txs[1] = 3 * i + 1

\* The first chunk failed, the relay accepted the bundle of the second, and
\* bundle returned false.
C39_Witness ==
    /\ jito.pc = "done"
    /\ jito.returned
    /\ ~jito.value
    /\ Len(jito.chunks) = 2
    /\ ~jito.chunks[1].success
    /\ jito.chunks[2].outcome = "accepted"
    /\ jito.chunks[2].bundleId > 0
    /\ jito.chunks[2].acceptedId = jito.chunks[2].bundleId
    /\ Len(engine.bundles) >= 1

(***************************************************************************)
(* SpecTrade: one call of PumpFundlerSDK.buy or PumpFundlerSDK.sell, made  *)
(* without priority fees. The ledger holds the mint's bonding curve (or    *)
(* not), answers the account query, takes the sendTransaction requests and *)
(* reports the balance change of the payer. Lamport amounts are bigints;   *)
(* token amounts and the curve's reserves are within the model's integers. *)
(***************************************************************************)
DefaultSlippageBasisPoints == 500

\* buyAmountSol in decimal: 0, 1, 99, 100, 250, 10000 and 2^53 + 7
BuyAmountsSol ==
    {<<0>>, <<1>>, <<9, 9>>, <<1, 0, 0>>, <<2, 5, 0>>, <<1, 0, 0, 0, 0>>,
     <<9, 0, 0, 7, 1, 9, 9, 2, 5, 4, 7, 4, 0, 9, 9, 9>>}
SellTokenAmounts == {0, 1, 100}

\* postBalances[0] - preBalances[0] of a transaction the ledger reports:
\* what the payer received less the network fee, or NaN without meta.
NaN == [nan |-> TRUE, val |-> 0]
BalanceChange(n) == [nan |-> FALSE, val |-> n]
BalanceChanges == {NaN} \cup {BalanceChange(n) : n \in {-5000, -101, 0, 99, 250, 5000}}

Instruction(kind, lamports, tokens, bound) ==
    [kind |-> kind, lamports |-> lamports, tokens |-> tokens, bound |-> bound]

\* instruction.data.length: a system transfer is 12 bytes, a buy or a sell
\* is 24 (discriminator and two u64), an associated-account creation is 0.
dataLength(instruction) ==
    CASE instruction.kind = "transfer" -> 12
      [] instruction.kind \in {"buy", "sell"} -> 24
      [] OTHER -> 0

createFeeInstruction(amount) ==
    <<Instruction("transfer", amount, 0, BigIntOfInt(0))>>

\* The amount a quote is asked for, within the model's integers: the curves
\* of the model have virtualSolReserves * virtualTokenReserves < 2^30, so
\* for every amount >= 2^30 the quotient n / i of getBuyPrice is 0, as it is
\* for 2^30.
QuoteAmount(amount) ==
    IF Len(amount.bits) <= 30 THEN IntOfBigInt(amount) ELSE 2^30

getBondingCurveAccountOf(ledgerState) ==
    IF ledgerState.curveExists THEN Ok(ledgerState.curve)
    ELSE Throw("AccountNotFound")

\* getBuyInstructions: the buy instruction, after the creation of the
\* buyer's token account when the buyer has none.
getBuyInstructions(hasTokenAccount, amount, solAmount) ==
    (IF hasTokenAccount THEN <<>>
     ELSE <<Instruction("createAssociatedTokenAccount", BigIntOfInt(0), 0,
                        BigIntOfInt(0))>>)
        \o <<Instruction("buy", BigIntOfInt(0), amount, solAmount)>>

\* calculateWithSlippageBuy on a bigint amount
buyAmountWithSlippage(buyAmountSol, slippageBasisPoints) ==
    BigIntOfBits(FALSE,
        BitsAdd(buyAmountSol.bits,
                BitsDivNat(BitsMul(buyAmountSol.bits, BitsOfNat(slippageBasisPoints)),
                           FeeDenominator), 0))

\* getBuyInstructionsBySolAmount of buy(): the instructions or the error.
buyInstructionsBySolAmount(ledgerState, buyAmountSol, slippageBasisPoints) ==
    LET bondingCurveAccount == getBondingCurveAccountOf(ledgerState) IN
    IF ~bondingCurveAccount.ok THEN bondingCurveAccount
    ELSE LET buyAmount == BondingCurve_getBuyPrice(bondingCurveAccount.val,
                                                   QuoteAmount(buyAmountSol))
         IN  IF ~buyAmount.ok THEN buyAmount
             ELSE Ok(getBuyInstructions(
                        ledgerState.hasTokenAccount, buyAmount.val,
                        buyAmountWithSlippage(buyAmountSol, slippageBasisPoints)))

\* getSellInstructionsByTokenAmount: the instructions or the error.
getSellInstructionsByTokenAmount(ledgerState, sellTokenAmount, slippageBasisPoints) ==
    LET bondingCurveAccount == getBondingCurveAccountOf(ledgerState) IN
    IF ~bondingCurveAccount.ok THEN bondingCurveAccount
    ELSE LET minSolOutput == BondingCurve_getSellPrice(bondingCurveAccount.val,
                                 sellTokenAmount, ledgerState.feeBasisPoints)
         IN  IF ~minSolOutput.ok THEN minSolOutput
             ELSE Ok(<<Instruction("sell", BigIntOfInt(0), sellTokenAmount,
                          BigIntOfInt(calculateWithSlippageSell(
                              minSolOutput.val, slippageBasisPoints)))>>)

\* The transaction sendTx signs: a transfer of the fee of the data size of
\* the first instruction, then the caller's instructions.
sendTxTransaction(tx) ==
    (IF tx # <<>>
     THEN createFeeInstruction(
              calculateTransactionFee(BigIntOfInt(dataLength(tx[1]))))
     ELSE <<>>) \o tx

NoTransactionResult == [success |-> FALSE, results |-> FALSE, change |-> NaN]

\* if (soldAmount): a number is truthy unless it is 0 or NaN
Truthy(number) == ~number.nan /\ number.val # 0

InitTrade ==
    /\ \E op \in {"buy", "sell"} :
        \E buyAmountSol \in (IF op = "buy" THEN BuyAmountsSol ELSE {<<0>>}),
           sellTokenAmount \in (IF op = "sell" THEN SellTokenAmounts ELSE {0}) :
            trade = [pc |-> "start", op |-> op, buyAmountSol |-> buyAmountSol,
                     sellTokenAmount |-> sellTokenAmount,
                     fee |-> BigIntOfInt(0), priced |-> BigIntOfInt(0),
                     tx |-> <<>>, result |-> NoTransactionResult,
                     thrown |-> "none"]
    /\ \E exists \in BOOLEAN, c \in {OpenCurve, FinishedCurve},
          account \in BOOLEAN, f \in {0, 100} :
            chain = [curveExists |-> exists, curve |-> c,
                     hasTokenAccount |-> account, feeBasisPoints |-> f,
                     queries |-> 0, requests |-> <<>>]
    /\ IdleCurve
    /\ IdleAmm
    /\ IdleCab
    /\ IdleGlobal
    /\ IdleJito
    /\ IdleUtil

UnchangedButTrade ==
    UNCHANGED <<bc, bcQuery, amm, ammOrigin, ammHist, cab, ledger, relay,
                globalAccount, globalQuery, jito, engine, util>>

\* buy(), up to the call of sendTx
buyInstructions ==
    /\ trade.pc = "start" /\ trade.op = "buy"
    /\ LET buyAmountSol == BigIntOfDecimal(trade.buyAmountSol)
           fee == calculateTransactionFee(buyAmountSol)
           buyAmountAfterFee == BigIntOfBits(FALSE, BitsSub(buyAmountSol.bits, fee.bits))
           buyTx == buyInstructionsBySolAmount(chain, buyAmountAfterFee,
                                               DefaultSlippageBasisPoints)
       IN  IF ~buyTx.ok
           THEN trade' = [trade EXCEPT !.pc = "thrown", !.thrown = buyTx.err,
                                       !.fee = fee, !.priced = buyAmountAfterFee]
           ELSE trade' = [trade EXCEPT !.pc = "sendTx", !.fee = fee,
                                       !.priced = buyAmountAfterFee,
                                       !.tx = createFeeInstruction(fee) \o buyTx.val]
    /\ chain' = [chain EXCEPT !.queries = @ + 1]
    /\ UnchangedButTrade

\* sell(), up to the call of sendTx
sellInstructions ==
    /\ trade.pc = "start" /\ trade.op = "sell"
    /\ LET sellTx == getSellInstructionsByTokenAmount(chain, trade.sellTokenAmount,
                                                      DefaultSlippageBasisPoints)
       IN  IF ~sellTx.ok
           THEN trade' = [trade EXCEPT !.pc = "thrown", !.thrown = sellTx.err]
           ELSE trade' = [trade EXCEPT !.pc = "sendTx", !.tx = sellTx.val]
    /\ chain' = [chain EXCEPT !.queries = @ + 1]
    /\ UnchangedButTrade

InSendTx == trade.pc \in {"sendTx", "sendFeeTx"}

Request(tx, purpose, accepted) ==
    [tx |-> tx, purpose |-> purpose, accepted |-> accepted]

\* What the caller does with the TransactionResult of sendTx: buy returns
\* it; sell goes on to the fee when it is a success with results; the
\* result of the fee transaction is dropped and sellResults returned.
afterSendTx(result) ==
    IF trade.pc = "sendFeeTx" THEN [trade EXCEPT !.pc = "done"]
    ELSE [trade EXCEPT
            !.result = result,
            !.pc = IF trade.op = "sell" /\ result.success /\ result.results
                   THEN "soldAmount" ELSE "done"]

\* buildVersionedTx (getLatestBlockhash) throws: it is outside sendTx's try,
\* so sendTx and its caller reject.
buildVersionedTxThrows ==
    /\ InSendTx
    /\ trade' = [trade EXCEPT !.pc = "thrown", !.thrown = "NetworkError"]
    /\ UNCHANGED chain
    /\ UnchangedButTrade

\* simulateTransaction throws: caught, {success: false}, nothing submitted.
simulateThrows ==
    /\ InSendTx
    /\ trade' = afterSendTx(NoTransactionResult)
    /\ UNCHANGED chain
    /\ UnchangedButTrade

\* sendTransaction throws (the preflight fails, or the node refuses).
sendTransactionThrows ==
    /\ InSendTx
    /\ trade' = afterSendTx(NoTransactionResult)
    /\ chain' = [chain EXCEPT !.requests =
                    Append(@, Request(sendTxTransaction(trade.tx), trade.pc, FALSE))]
    /\ UnchangedButTrade

\* The transaction is taken, and getTxDetails throws or returns null.
noTxDetails ==
    /\ InSendTx
    /\ trade' = afterSendTx(NoTransactionResult)
    /\ chain' = [chain EXCEPT !.requests =
                    Append(@, Request(sendTxTransaction(trade.tx), trade.pc, TRUE))]
    /\ UnchangedButTrade

\* The transaction is taken and getTxDetails returns it.
txDetails ==
    /\ InSendTx
    /\ \E change \in BalanceChanges :
        trade' = afterSendTx([success |-> TRUE, results |-> TRUE, change |-> change])
    /\ chain' = [chain EXCEPT !.requests =
                    Append(@, Request(sendTxTransaction(trade.tx), trade.pc, TRUE))]
    /\ UnchangedButTrade

\* sell(): "if (soldAmount)" and the fee transaction. SystemProgram.transfer
\* is given the fee as it is; for a negative fee it throws or encodes it,
\* according to the library's build.
soldAmount ==
    /\ trade.pc = "soldAmount"
    /\ LET sold == trade.result.change
           fee == calculateTransactionFee(BigIntOfInt(sold.val))
       IN  IF ~Truthy(sold)
           THEN trade' = [trade EXCEPT !.pc = "done"]
           ELSE \/ trade' = [trade EXCEPT !.pc = "sendFeeTx", !.fee = fee,
                                          !.tx = createFeeInstruction(fee)]
                \/ /\ fee.neg
                   /\ trade' = [trade EXCEPT !.pc = "thrown", !.fee = fee,
                                             !.thrown = "RangeError"]
    /\ UNCHANGED chain
    /\ UnchangedButTrade

NextTrade ==
    \/ buyInstructions
    \/ sellInstructions
    \/ buildVersionedTxThrows
    \/ simulateThrows
    \/ sendTransactionThrows
    \/ noTxDetails
    \/ txDetails
    \/ soldAmount

SpecTrade == InitTrade /\ [][NextTrade]_vars

(***************************************************************************)
(* SpecUtil: calls of util.ts' pure functions. A data size is written in   *)
(* decimal, highest digit first, so that sizes beyond the model's integers *)
(* can be passed and their hundredth read off the digits.                  *)
(***************************************************************************)
MaxSize == 120

RECURSIVE DigitsOfNat(_)
DigitsOfNat(n) ==
    IF n < 10 THEN <<n>> ELSE Append(DigitsOfNat(n \div 10), n % 10)

\* 2^53, 2^53 + 7, 10^18 - 1 and 2^64 - 1
LargeSizes ==
    {<<9, 0, 0, 7, 1, 9, 9, 2, 5, 4, 7, 4, 0, 9, 9, 2>>,
     <<9, 0, 0, 7, 1, 9, 9, 2, 5, 4, 7, 4, 0, 9, 9, 9>>,
     <<9, 9, 9, 9, 9, 9, 9, 9, 9, 9, 9, 9, 9, 9, 9, 9, 9, 9>>,
     <<1, 8, 4, 4, 6, 7, 4, 4, 0, 7, 3, 7, 0, 9, 5, 5, 1, 6, 1, 5>>}

Size(digits) == [defined |-> TRUE, digits |-> digits]
NoSize == [defined |-> FALSE, digits |-> <<>>]
DataSizes == {Size(DigitsOfNat(n)) : n \in 0..MaxSize}
                 \cup {Size(d) : d \in LargeSizes} \cup {NoSize}

SlippageAmounts == 0..MaxAmount \cup {100, 10000, 12345}
BasisPoints == {0, 1, 500, 2500, FeeDenominator, 2 * FeeDenominator}

InitUtil ==
    /\ util = [fn |-> "none"]
    /\ IdleCurve
    /\ IdleAmm
    /\ IdleCab
    /\ IdleGlobal
    /\ IdleJito
    /\ IdleTrade

UnchangedButUtil ==
    UNCHANGED <<bc, bcQuery, amm, ammOrigin, ammHist, cab, ledger, relay,
                globalAccount, globalQuery, jito, engine, trade, chain>>

transactionFeeOfSize ==
    \E size \in DataSizes :
        /\ util' = [fn |-> "calculateTransactionFee", size |-> size,
                    res |-> calculateTransactionFee(
                                IF size.defined THEN BigIntOfDecimal(size.digits)
                                ELSE undefined)]
        /\ UnchangedButUtil

withSlippageBuy ==
    \E amount \in SlippageAmounts, basisPoints \in BasisPoints :
        /\ util' = [fn |-> "calculateWithSlippageBuy", amount |-> amount,
                    basisPoints |-> basisPoints,
                    res |-> calculateWithSlippageBuy(amount, basisPoints)]
        /\ UnchangedButUtil

withSlippageSell ==
    \E amount \in SlippageAmounts, basisPoints \in BasisPoints :
        /\ util' = [fn |-> "calculateWithSlippageSell", amount |-> amount,
                    basisPoints |-> basisPoints,
                    res |-> calculateWithSlippageSell(amount, basisPoints)]
        /\ UnchangedButUtil

NextUtil == transactionFeeOfSize \/ withSlippageBuy \/ withSlippageSell

SpecUtil == InitUtil /\ [][NextUtil]_vars

\* The size without its last two decimal digits: floor(size / 100).
Hundredth(digits) == BigIntOfDecimal(SubSeq(digits, 1, Len(digits) - 2))

\* C26 (as claimed): calculateTransactionFee(undefined) = 0 and, for every
\* defined size s >= 0, calculateTransactionFee(s) = floor(s / 100);
\* calculateTransactionFee(100) = 1.
C26_FeeIsHundredthRoundedDown ==
    util.fn = "calculateTransactionFee"
        => /\ ~util.size.defined => util.res = BigIntOfInt(0)
           /\ util.size.defined => util.res = Hundredth(util.size.digits)
           /\ util.size = Size(<<1, 0, 0>>) => util.res = BigIntOfInt(1)

\* C27: for a >= 0 and b >= 0, calculateWithSlippageBuy(a, b) is
\* a + floor(a * b / 10000) and calculateWithSlippageSell(a, b) is
\* a - floor(a * b / 10000); with b = 0 both return a.
C27_SlippageFormula ==
    /\ util.fn = "calculateWithSlippageBuy"
         => /\ util.res = util.amount + ((util.amount * util.basisPoints) \div 10000)
            /\ util.basisPoints = 0 => util.res = util.amount
    /\ util.fn = "calculateWithSlippageSell"
         => /\ util.res = util.amount - ((util.amount * util.basisPoints) \div 10000)
            /\ util.basisPoints = 0 => util.res = util.amount

\* A sell bound that the slippage lowers by a rounded-down share.
C27_Witness ==
    /\ util.fn = "calculateWithSlippageSell"
    /\ util.amount = 12345
    /\ util.basisPoints = 500
    /\ util.res = 11728

(***************************************************************************)
(* Claims on the submissions of Spec                                       *)
(***************************************************************************)
\* The calls of jitoWithAxios that have returned: one per turn of the loop.
\* Exact while cab.failures < MaxAttempts.
Iterations == cab.failures + (IF cab.result.confirmed THEN 1 ELSE 0)

\* The transactions the ledger took from sendTx.
DirectLandings == SelectSeq(ledger.landed, LAMBDA l : l = "direct")

\* C30 (as claimed): each call of jitoWithAxios makes at most one sendBundle
\* request, sendTx makes at most one ledger submission, and the number of
\* relay submissions of createAndBuy equals the number of turns of its loop.
C30_RequestsEqualIterations ==
    cab.pc \in {"jitoWithAxios", "done"} /\ cab.failures < MaxAttempts
        => /\ Len(DirectLandings) <= 1
           /\ relay.requests = Iterations

\* C30 (amended): the same, with at most one relay submission per turn of
\* the loop: none before the loop, never more than the calls begun.
C30_RequestsAtMostIterations ==
    cab.pc # "idle" =>
        /\ Len(DirectLandings) <= 1
        /\ cab.direct # "landed" => DirectLandings = <<>>
        /\ cab.pc \in {"createTokenMetadata", "buildTx", "buyers", "sendTx"}
             => relay.requests = 0 /\ ledger.landed = <<>>
        /\ cab.pc \in {"jitoWithAxios", "done"} /\ cab.failures < MaxAttempts
             => relay.requests <= Iterations
        /\ cab.pc = "confirmTransaction" /\ cab.failures < MaxAttempts
             => relay.requests <= Iterations + 1

\* Two turns of the loop, the first without a request, after a direct
\* submission that was lost.
C30_Witness ==
    /\ cab.pc = "done"
    /\ cab.direct = "lost"
    /\ cab.failures = 1
    /\ Iterations = 2
    /\ relay.requests = 1

(***************************************************************************)
(* Claims on the buyers loop of Spec                                       *)
(***************************************************************************)
Buyers == 1..Len(cab.buyTxs)

\* The amount the claim states for a draw: the nominal amount scaled by
\* (100 + p) / 100 for odd p and (100 - p) / 100 for even p, rounded down.
ScaledAmount(buyAmountSol, p) ==
    FloorDiv(buyAmountSol * (IF p % 2 = 1 THEN PercentBase + p ELSE PercentBase - p),
             PercentBase)

\* C31 (as claimed): for each buyer createAndBuy draws an integer p with
\* 10 <= p <= 25 and buys for floor(buyAmountSol * (100 + p) / 100) when p is
\* odd and floor(buyAmountSol * (100 - p) / 100) when p is even, whatever the
\* nominal amount, a multiple of 100 or not.
C31_RandomizedAmountIsScaledNominal ==
    \A k \in Buyers :
        /\ cab.draws[k].randomPercent \in MinPercent..MaxPercent
        /\ cab.draws[k].buyAmountSolWithRandom =
               ScaledAmount(cab.buyAmountSol, cab.draws[k].randomPercent)

\* C34: the token quantity of a buyer's transaction is the quote of that
\* buyer's randomized SOL amount on the curve read from the ledger, whatever
\* the number, the order and the amounts of the other buyers: no reserve is
\* advanced between buyers.
C34_BuyerPricedOnLedgerSnapshot ==
    \A k \in Buyers :
        LET quote == BondingCurve_getBuyPrice(ledger.curve,
                                              cab.draws[k].buyAmountSolWithRandom)
        IN  /\ quote.ok
            /\ cab.buyTxs[k].amount = quote.val
            /\ \A j \in Buyers :
                    cab.draws[j].buyAmountSolWithRandom = cab.draws[k].buyAmountSolWithRandom
                        => cab.buyTxs[j].amount = cab.buyTxs[k].amount

\* Three buyers priced, the first and the third with the same amount and a
\* different one between them.
C34_Witness ==
    /\ Len(cab.buyTxs) = 3
    /\ cab.draws[1].buyAmountSolWithRandom = cab.draws[3].buyAmountSolWithRandom
    /\ cab.draws[2].buyAmountSolWithRandom > cab.draws[1].buyAmountSolWithRandom
    /\ cab.buyTxs[1].amount > 0
    /\ cab.buyTxs[3].amount = cab.buyTxs[1].amount
    /\ cab.buyTxs[2].amount > cab.buyTxs[1].amount

(***************************************************************************)
(* Claims on SpecTrade                                                     *)
(***************************************************************************)
FeeRequests == {k \in 1..Len(chain.requests) : chain.requests[k].purpose = "sendFeeTx"}

\* C21 (as claimed): sell submits a fee transaction only after the sell
\* transaction succeeded and only when the balance change soldAmount is
\* strictly positive, and the fee is floor(soldAmount / 100); when the sell
\* failed or soldAmount <= 0 no fee transaction is sent.
C21_SellFeeOnlyOnPositiveProceeds ==
    trade.op = "sell" =>
        \A k \in FeeRequests :
            LET tx == chain.requests[k].tx IN
            /\ trade.result.success
            /\ ~trade.result.change.nan
            /\ trade.result.change.val > 0
            /\ tx[Len(tx)].kind = "transfer"
            /\ tx[Len(tx)].lamports = BigIntOfInt(trade.result.change.val \div 100)

\* C22 (as claimed): buy(buyAmountSol) transfers fee = floor(buyAmountSol /
\* 100) in the first instruction of the transaction it submits, ahead of the
\* buy instruction, prices the purchase with buyAmountSol - fee, and the fee
\* plus the amount priced is buyAmountSol.
C22_BuyFeeSplit ==
    (trade.op = "buy" /\ trade.tx # <<>>) =>
        LET buyAmountSol == BigIntOfDecimal(trade.buyAmountSol)
            fee == Hundredth(trade.buyAmountSol)
        IN  /\ trade.tx[1] = Instruction("transfer", fee, 0, BigIntOfInt(0))
            /\ \E j \in 2..Len(trade.tx) : trade.tx[j].kind = "buy"
            /\ trade.priced = BigIntOfBits(FALSE, BitsSub(buyAmountSol.bits, fee.bits))
            /\ BitsAdd(trade.tx[1].lamports.bits, trade.priced.bits, 0) = buyAmountSol.bits
            /\ \A k \in 1..Len(chain.requests) :
                   chain.requests[k].tx = sendTxTransaction(trade.tx)

\* C23: in buy and sell a pricing error (CurveComplete) or a missing
\* bonding-curve account (AccountNotFound) is raised to the caller before
\* any transaction is submitted, and the account is queried once only.
C23_PricingErrorsRaisedBeforeSubmission ==
    /\ chain.queries <= 1
    /\ trade.thrown \in {"CurveComplete", "AccountNotFound"}
         => (trade.pc = "thrown" /\ chain.requests = <<>>)
    /\ trade.pc # "start"
         => /\ ~chain.curveExists => trade.thrown = "AccountNotFound"
            /\ (chain.curveExists /\ chain.curve.complete)
                 => trade.thrown = "CurveComplete"

\* A buy of nothing on a finished curve, rejected before any submission.
C23_Witness ==
    /\ trade.op = "buy"
    /\ trade.buyAmountSol = <<0>>
    /\ trade.pc = "thrown"
    /\ trade.thrown = "CurveComplete"
    /\ chain.queries = 1
    /\ chain.requests = <<>>

====
